---- MODULE Spec2Model ----
(***************************************************************************)
(* Schema convergence (SQLMigration::migrate) and SQL literal encoding of  *)
(* the teo SQL connector, as a state machine. One action per statement     *)
(* point of migrate: every call on the pooled connection is one step, so   *)
(* that an abort (a panic of an unwrap) is seen with exactly the           *)
(* statements issued before it.                                            *)
(***************************************************************************)
EXTENDS Integers, Sequences, FiniteSets, TLC

VARIABLES
    dialect,            \* SQLDialect of the run
    models,             \* &Vec<Model>, never written by migrate
    db,                 \* the live database: table name -> table
    db_tables,          \* migrate's working set (Vec<String>)
    pc,                 \* position in migrate
    i,                  \* index of the model being processed (for model in models)
    db_columns,         \* local db_columns of the current model
    table_has_records,  \* local table_has_records of the current model
    manipulations,      \* local manipulations of the current model
    k,                  \* index of the manipulation being applied
    sub,                \* position inside the manipulation being applied
    clauses,            \* psql_alter_clauses still to execute
    j,                  \* index of the cleanup loop over db_tables
    abort,              \* why the run panicked ("" while it has not)
    log,                \* every call made so far, in order (history)
    account,            \* how each working-set entry was handled (history)
    run,                \* number of the current run of migrate
    db0,                \* the live database when the current run started
    str,                \* input of the literal encoder
    out,                \* result of the literal encoder
    self,               \* &self: the Value of to_sql_string / to_string
    field_type,         \* r#type: &FieldType of to_sql_string
    optional,           \* optional: bool of to_sql_string
    url,                \* url: &str of create_sqlite_database_if_needed
    reset,              \* reset: bool of create_sqlite_database_if_needed
    files,              \* the file system: path -> state of the file
    catalog,            \* the database server: database name -> state of the database
    object,             \* an Object: field name -> stored value
    records,            \* the stored records of a model, in insertion order
    finder,             \* finder: &Value of group_by / input of set_json
    result,             \* what the last call on an Object or a Connector returned
    sql,                \* the statements a statement builder has produced
    row,                \* row: AnyRow of ColumnDecoder::decode
    conns,              \* connections checked out of the pool by the run
    inflight,           \* calls started and not yet completed
    awaiting,           \* the call at the current position was started
    atomic              \* a call and its completion are taken as one step

vars == <<dialect, models, db, db_tables, pc, i, db_columns, table_has_records,
          manipulations, k, sub, clauses, j, abort, log, account, run, db0,
          str, out, self, field_type, optional, url, reset, files,
          catalog, object, records, finder, result, sql, row,
          conns, inflight, awaiting, atomic>>

(***************************************************************************)
(* Bounds                                                                  *)
(***************************************************************************)
MaxModels == 2
MaxHistory == 2
MaxStrLen == 3

(***************************************************************************)
(* Data                                                                    *)
(***************************************************************************)
Dialects == {"SQLite", "MySQL", "PostgreSQL"}

TableNames == {"t", "u", "v"}

\* the order in which the catalog query lists the user tables
CatalogOrder == <<"t", "u", "v">>

None == "none"

Col(n, ty, nn, d) == [name |-> n, type |-> ty, not_null |-> nn, default |-> d]

\* the column every table of the bounded inputs has
IdColumn == Col("id", "int", TRUE, None)

\* the shapes of the column "b" that the bounded inputs draw from
BVariants ==
    { Col("b", "int", FALSE, None), Col("b", "int", TRUE, None),
      Col("b", "int", TRUE, "0"),   Col("b", "text", FALSE, None),
      Col("b", "int", FALSE, "0"),  Col("b", "int", FALSE, "1") }

ColumnSets == {{IdColumn}} \cup {{IdColumn, c} : c \in BVariants}

NoTable == [live |-> FALSE, cols |-> {}, rows |-> FALSE]

Range(s) == {s[n] : n \in 1..Len(s)}

RECURSIVE SeqsNoRepeat(_, _)
\* the sequences of length <= n of distinct elements of S
SeqsNoRepeat(S, n) ==
    IF n = 0 THEN {<<>>}
    ELSE LET shorter == SeqsNoRepeat(S, n - 1)
         IN  shorter \cup
             UNION {{Append(s, x) : x \in S \ Range(s)} : s \in shorter}

\* the enumerations of the finite set S, each element once
Orderings(S) == {s \in SeqsNoRepeat(S, Cardinality(S)) : Len(s) = Cardinality(S)}

Ev(op, t, arg) == [op |-> op, t |-> t, arg |-> arg]

(***************************************************************************)
(* Vec<String> helpers used by migrate                                     *)
(***************************************************************************)
Contains(s, x) == \E n \in 1..Len(s) : s[n] = x

\* iter().find_position(|v| v == x).unwrap().0
FindPosition(s, x) == CHOOSE n \in 1..Len(s) : s[n] = x /\ \A q \in 1..(n - 1) : s[q] # x

\* Vec::remove(index)
RemoveAt(s, n) == [q \in 1..(Len(s) - 1) |-> IF q < n THEN s[q] ELSE s[q + 1]]

\* a removal at the head of the working set instead of the found index
RemoveMatchedFirst(s, x) == RemoveAt(s, 1)

\* a working set from which the matched table is not taken out
RemoveMatchedKeeps(s, x) == s

\* the working set after a matched table is taken out of it
RemoveMatched(s, x) == RemoveAt(s, FindPosition(s, x))

\* a working set that gets the new name and keeps the old one
RenameInListKeepsOld(s, old, new) == Append(s, new)

\* the working set after old_name was renamed to table_name
RenameInList(s, old, new) == Append(RemoveAt(s, FindPosition(s, old)), new)

\* for old_name in &migration.renamed { if db_tables.contains(old_name) { ... break } }
HasLiveOldName(m, tables) == \E n \in 1..Len(m.renamed) : Contains(tables, m.renamed[n])

\* a loop over the history that goes on after a match: the last live name wins
LastLiveOldName(m, tables) ==
    m.renamed[CHOOSE n \in 1..Len(m.renamed) :
                  /\ Contains(tables, m.renamed[n])
                  /\ \A q \in (n + 1)..Len(m.renamed) : ~Contains(tables, m.renamed[q])]

FirstLiveOldName(m, tables) ==
    m.renamed[CHOOSE n \in 1..Len(m.renamed) :
                  /\ Contains(tables, m.renamed[n])
                  /\ \A q \in 1..(n - 1) : ~Contains(tables, m.renamed[q])]

\* the guard of the rename: the model's name is not live, a previous name is
WantsRename(m, tables) == ~Contains(tables, m.name) /\ HasLiveOldName(m, tables)

\* let is_table_exist = db_tables.iter().any(|x| x == table_name);
is_table_exist(tables, name) == Contains(tables, name)

\* a create branch that pushes the created table, as the rename does
TablesAfterCreatePushed(tables, name) == Append(tables, name)

\* the working set after the create branch, which does not touch it
TablesAfterCreate(tables, name) == tables

\* a gate that tests for the wrong dialect
SqliteAlterGateWrongDialect(need, d) == need /\ d = "MySQL"

\* if need_to_alter_any_column && dialect == SQLDialect::SQLite { panic!(..) }
SqliteAlterGate(need, d) == need /\ d = "SQLite"

(***************************************************************************)
(* Values and their SQL literals (ToSQLString, ToSQLInput)                 *)
(***************************************************************************)
NoValue == [tag |-> "None"]

DecimalDigits == <<"0", "1", "2", "3", "4", "5", "6", "7", "8", "9">>

RECURSIVE NatToString(_)
\* i.to_string() of a non-negative integer: its decimal numeral
NatToString(n) ==
    IF n < 10 THEN DecimalDigits[n + 1]
    ELSE NatToString(n \div 10) \o DecimalDigits[(n % 10) + 1]

\* An integer is held as the bytes of its two's complement pattern, the least
\* significant first, as many as its type is wide.
SignedTags == {"I8", "I16", "I32", "I64", "I128"}

UnsignedTags == {"U8", "U16", "U32", "U64", "U128"}

IntTags == SignedTags \cup UnsignedTags

\* size_of the integer type, in bytes
Width(tag) ==
    CASE tag \in {"I8", "U8"}     -> 1
      [] tag \in {"I16", "U16"}   -> 2
      [] tag \in {"I32", "U32"}   -> 4
      [] tag \in {"I64", "U64"}   -> 8
      [] tag \in {"I128", "U128"} -> 16

Reverse(s) == [q \in 1..Len(s) |-> s[Len(s) + 1 - q]]

\* the sign bit of a pattern
IsNegative(bs) == bs[Len(bs)] >= 128

\* `v as T`: the low bytes are kept; a wider target is filled with the sign of
\* a signed source and with zeros after an unsigned one
Cast(bs, signed, n) ==
    [q \in 1..n |-> IF q <= Len(bs) THEN bs[q]
                    ELSE IF signed /\ IsNegative(bs) THEN 255 ELSE 0]

RECURSIVE AddCarry(_, _)
AddCarry(bs, c) ==
    IF bs = <<>> THEN <<>>
    ELSE <<(Head(bs) + c) % 256>> \o AddCarry(Tail(bs), (Head(bs) + c) \div 256)

\* the pattern of the opposite number
Negate(bs) == AddCarry([q \in 1..Len(bs) |-> 255 - bs[q]], 1)

RECURSIVE DivTen(_, _)
\* division by ten of a magnitude given most significant byte first
DivTen(be, r) ==
    IF be = <<>> THEN [q |-> <<>>, r |-> r]
    ELSE LET cur  == r * 256 + Head(be)
             rest == DivTen(Tail(be), cur % 10)
         IN  [q |-> <<cur \div 10>> \o rest.q, r |-> rest.r]

RECURSIVE UnsignedToString(_)
\* to_string of an unsigned integer, given most significant byte first
UnsignedToString(be) ==
    LET d == DivTen(be, 0)
    IN  IF \A q \in 1..Len(d.q) : d.q[q] = 0 THEN DecimalDigits[d.r + 1]
        ELSE UnsignedToString(d.q) \o DecimalDigits[d.r + 1]

\* to_string of a signed integer
SignedToString(bs) ==
    IF IsNegative(bs) THEN "-" \o UnsignedToString(Reverse(Negate(bs)))
    ELSE UnsignedToString(Reverse(bs))

\* i.to_string() of an integer of the type tag
IntToString(tag, bs) ==
    IF tag \in SignedTags THEN SignedToString(bs) ELSE UnsignedToString(Reverse(bs))

\* the pattern of a small natural number in n bytes
BytesOf(x, n) == [q \in 1..n |-> IF q = 1 THEN x % 256 ELSE IF q = 2 THEN x \div 256 ELSE 0]

I32(n) == [tag |-> "I32", v |-> BytesOf(n, 4)]

StringValue(cs) == [tag |-> "String", v |-> cs]

Bool(b) == [tag |-> "Bool", v |-> b]

\* the characters a string value is made of: a quote, a backslash, a letter
Quote == "'"

Backslash == "\\"

Chars == {Quote, Backslash, "O"}

RECURSIVE EscapeChars(_)
\* the loop of to_sql_input over self.chars()
EscapeChars(cs) ==
    IF cs = <<>> THEN <<>>
    ELSE (IF Head(cs) = Quote THEN <<Backslash, Quote>> ELSE <<Head(cs)>>)
         \o EscapeChars(Tail(cs))

\* ToSQLInput for String and &str
to_sql_input(cs) == <<Quote>> \o EscapeChars(cs) \o <<Quote>>

\* ToSQLInput for bool: the keyword, whatever the dialect
bool_to_sql_input(b) == IF b THEN "TRUE" ELSE "FALSE"

\* f.to_string() of a float, kept as the value it prints
FloatToString(v) == "float:" \o v

\* ToSQLString for Value, the arms that return a literal: the dialect is not
\* consulted
ToSQLString(value, d) ==
    CASE value.tag = "Null"            -> "NULL"
      [] value.tag = "String"          -> to_sql_input(value.v)
      [] value.tag \in IntTags         -> IntToString(value.tag, value.v)
      [] value.tag \in {"F32", "F64"}  -> FloatToString(value.v)
      [] value.tag = "Bool"            -> bool_to_sql_input(value.v)

\* what an encoding ends with: a literal (its pieces, in order) or a panic
Literal(toks) == [panic |-> FALSE, lit |-> toks]

Fatal == [panic |-> TRUE, lit |-> <<>>]

\* the pieces of the literal of a value: a quoted string is held character by
\* character, every other literal is one piece
Tokens(value, lit) == IF value.tag = "String" THEN lit ELSE <<lit>>

\* the variants the match of to_string leaves to `_ => panic!("unhandled")`
UnhandledTags == {"ObjectId", "Decimal", "Vec", "Map", "Object", "Json"}

\* a to_string that gives an unhandled variant the literal NULL
ValueToStringDefaults(value, d) ==
    IF value.tag \in UnhandledTags THEN Literal(<<"NULL">>)
    ELSE Literal(Tokens(value, ToSQLString(value, d)))

\* ToSQLString for Value, with the panic of its last arm
ValueToString(value, d) ==
    IF value.tag \in UnhandledTags THEN Fatal
    ELSE Literal(Tokens(value, ToSQLString(value, d)))

Some(x) == [some |-> TRUE, v |-> x]

NoOption == [some |-> FALSE, v |-> <<>>]

is_null(value) == value.tag = "Null"

as_str(value) == IF value.tag \in {"String", "ObjectId"} THEN Some(value.v) ELSE NoOption

as_bool(value) == IF value.tag = "Bool" THEN Some(value.v) ELSE NoOption

as_vec(value) == IF value.tag = "Vec" THEN Some(value.v) ELSE NoOption

\* Some(*v as i64) for every integer variant
as_i64(value) ==
    IF value.tag \in IntTags THEN Some(Cast(value.v, value.tag \in SignedTags, 8))
    ELSE NoOption

\* Some(*v as u64) for every unsigned variant
as_u64(value) ==
    IF value.tag \in UnsignedTags THEN Some(Cast(value.v, FALSE, 8)) ELSE NoOption

\* Some(*v as f64) for every number; the float is kept as the numeral it came from
as_f64(value) ==
    IF value.tag \in IntTags THEN Some(IntToString(value.tag, value.v))
    ELSE IF value.tag \in {"F32", "F64"} THEN Some(value.v)
    ELSE NoOption

\* the field types to_sql_string has an arm for
IntFieldTags == IntTags

RECURSIVE JoinLits(_)
\* result.join(", ")
JoinLits(lits) ==
    IF lits = <<>> THEN <<>>
    ELSE IF Len(lits) = 1 THEN lits[1]
    ELSE lits[1] \o <<", ">> \o JoinLits(Tail(lits))

\* a wrapper that writes the array as a parenthesised list
wrap_in_parentheses(toks) == <<"(">> \o toks \o <<")">>

\* "ARRAY[".to_owned() + self + "]"
wrap_in_array(toks) == <<"ARRAY[">> \o toks \o <<"]">>

\* the test of optional and is_null placed after the match on the type
NullAfterMatch(value, ty, opt) ==
    opt /\ is_null(value) /\ ty.tag \in {"String", "Enum", "Bool", "F32", "F64", "Vec"} \cup IntFieldTags

\* if optional { if self.is_null() { return "NULL" } }
NullShortcut(value, ty, opt) == opt /\ is_null(value)

RECURSIVE to_sql_string(_, _, _)
\* ValueToSQLString for Value
to_sql_string(value, ty, opt) ==
    IF NullShortcut(value, ty, opt) THEN Literal(<<"NULL">>)
    ELSE CASE ty.tag \in {"String", "Enum"} ->
                IF as_str(value).some THEN Literal(to_sql_input(as_str(value).v))
                ELSE Fatal
           [] ty.tag = "Bool" ->
                IF as_bool(value).some
                  THEN Literal(<<bool_to_sql_input(as_bool(value).v)>>)
                  ELSE Fatal
           [] ty.tag \in IntFieldTags ->
                IF as_i64(value).some
                  THEN Literal(<<SignedToString(as_i64(value).v)>>)
                ELSE IF as_u64(value).some
                  THEN Literal(<<UnsignedToString(Reverse(as_u64(value).v))>>)
                ELSE Fatal
           [] ty.tag \in {"F32", "F64"} ->
                IF as_f64(value).some
                  THEN Literal(<<FloatToString(as_f64(value).v)>>)
                ELSE Fatal
           [] ty.tag = "Vec" ->
                IF ~as_vec(value).some THEN Fatal
                ELSE LET val == as_vec(value).v
                         rs  == [q \in 1..Len(val) |->
                                   to_sql_string(val[q], ty.elem.type, ty.elem.optional)]
                     IN  IF \E q \in 1..Len(val) : rs[q].panic THEN Fatal
                         ELSE Literal(wrap_in_array(
                                  JoinLits([q \in 1..Len(val) |-> rs[q].lit])))
           [] OTHER -> Fatal

(***************************************************************************)
(* The diff engine (ColumnDecoder), as the specification describes it      *)
(***************************************************************************)
decode_model_columns(m) == m.cols

ColumnsDiffer(old, new) ==
    \/ old.type # new.type
    \/ old.not_null # new.not_null
    \/ old.default # new.default

need_to_alter_any_columns(dbc, mc) ==
    \E o \in dbc, n \in mc : o.name = n.name /\ ColumnsDiffer(o, n)

\* the default value a declared column carries, as a Value
DefaultValue(c) ==
    IF c.default = None THEN NoValue
    ELSE I32(CHOOSE n \in 0..9 : NatToString(n) = c.default)

\* the column of an AddColumn is the SQLColumn::from(&Field) of the field, which
\* carries no default: the default travels in the manipulation
AddColumn(c, m) ==
    LET col == [c EXCEPT !.default = None]
    IN  [op |-> "add", old |-> col, new |-> col, action |-> c.name \in m.actions,
         default |-> DefaultValue(c)]

RemoveColumn(c, m) ==
    [op |-> "remove", old |-> c, new |-> c, action |-> c.name \in m.actions,
     default |-> NoValue]

AlterColumn(o, n) ==
    [op |-> "alter", old |-> o, new |-> n, action |-> FALSE, default |-> NoValue]

\* the manipulations the comparison calls for, before they are put in order
ManipulationSet(dbc, mc, m) ==
    {AddColumn(c, m) : c \in {x \in mc : \A o \in dbc : o.name # x.name}}
    \cup {RemoveColumn(c, m) : c \in {x \in dbc : \A n \in mc : n.name # x.name}}
    \cup {AlterColumn(pr[1], pr[2]) :
            pr \in {q \in dbc \X mc : q[1].name = q[2].name /\ ColumnsDiffer(q[1], q[2])}}

is_add_column_non_null(mp) ==
    mp.op = "add" /\ mp.new.not_null /\ mp.default = NoValue

\* a comparison that never leads to the drop and create
TakesDestructivePathNever(has_records, ms) == FALSE

\* a destructive path taken for any manipulation of a table with rows
TakesDestructivePathAnyChange(has_records, ms) == has_records /\ ms # <<>>

\* if table_has_records && manipulations.iter().find(|m| m.is_add_column_non_null()).is_some()
TakesDestructivePath(has_records, ms) ==
    has_records /\ \E n \in 1..Len(ms) : is_add_column_non_null(ms[n])

\* a RemoveColumn that issues its DROP COLUMN at once and never runs its action
RemoveColumnDropsFirst(mp) == "exec"

\* the first step of a RemoveColumn: its action, when it carries one
RemoveColumnFirstStep(mp) == IF mp.action THEN "action" ELSE "exec"

(***************************************************************************)
(* Statement synthesis                                                     *)
(***************************************************************************)
\* psql_alter_clauses: the statements of one AlterColumn on PostgreSQL
psql_alter_clauses(t, old, new) ==
    (IF old.type # new.type THEN <<Ev("alter_type", t, new.name)>> ELSE <<>>)
    \o (IF old.default = None /\ new.default # None
          THEN <<Ev("set_default", t, new.name)>>
        ELSE IF old.default # None /\ new.default = None
          THEN <<Ev("drop_default", t, new.name)>>
        ELSE IF old.default # None /\ new.default # None /\ old.default = new.default
          THEN <<Ev("set_default", t, new.name)>>
        ELSE <<>>)

(***************************************************************************)
(* What the database does with a statement                                 *)
(***************************************************************************)
ReplaceColumn(cols, c) == {x \in cols : x.name # c.name} \cup {c}

ColumnNamed(cols, n) == CHOOSE c \in cols : c.name = n

DbRename(d, old, new) == [d EXCEPT ![new] = d[old], ![old] = NoTable]

DbCreate(d, m) ==
    [d EXCEPT ![m.name] = [live |-> TRUE, cols |-> m.cols, rows |-> FALSE]]

DbDrop(d, t) == [d EXCEPT ![t] = NoTable]

DbAddColumn(d, t, c) == [d EXCEPT ![t].cols = @ \cup {c}]

DbDropColumn(d, t, n) == [d EXCEPT ![t].cols = {x \in @ : x.name # n}]

DbModify(d, t, c) == [d EXCEPT ![t].cols = ReplaceColumn(@, c)]

\* one clause of psql_alter_clauses applied to the live column
DbClause(d, t, ev, new) ==
    LET cur == ColumnNamed(d[t].cols, ev.arg)
        upd == CASE ev.op = "alter_type"   -> [cur EXCEPT !.type = new.type]
                 [] ev.op = "set_default"  -> [cur EXCEPT !.default = new.default]
                 [] ev.op = "drop_default" -> [cur EXCEPT !.default = None]
    IN  DbModify(d, t, upd)


(***************************************************************************)
(* Inputs of a run                                                         *)
(***************************************************************************)
ModelRec(n, v, r, cs, as) ==
    [name |-> n, virtual |-> v, renamed |-> r, cols |-> cs, actions |-> as]

\* the declarations one table name can have: virtual, or with a rename history
ModelsNamed(n, cs, as) ==
    {ModelRec(n, TRUE, <<>>, cs, as)} \cup
    {ModelRec(n, FALSE, r, cs, as) : r \in SeqsNoRepeat(TableNames \ {n}, MaxHistory)}

RECURSIVE ListsOfLen(_, _, _)
\* the lists of exactly n models with distinct table names
ListsOfLen(n, cs, as) ==
    IF n = 0 THEN {<<>>}
    ELSE UNION {{Append(ms, m) :
                   m \in UNION {ModelsNamed(x, cs, as) :
                                  x \in TableNames \ {ms[q].name : q \in 1..Len(ms)}}} :
                ms \in ListsOfLen(n - 1, cs, as)}

\* the lists of at least one and at most MaxModels models
ModelLists(cs, as) == UNION {ListsOfLen(n, cs, as) : n \in 1..MaxModels}

LiveDb(live, cs, rows) ==
    [t \in TableNames |->
        IF t \in live THEN [live |-> TRUE, cols |-> cs, rows |-> rows] ELSE NoTable]

\* SHOW TABLES and its like: the live tables in catalog order
UserTables(d) ==
    LET F[n \in 0..Len(CatalogOrder)] ==
            IF n = 0 THEN <<>>
            ELSE IF d[CatalogOrder[n]].live THEN Append(F[n - 1], CatalogOrder[n])
            ELSE F[n - 1]
    IN  F[Len(CatalogOrder)]

\* the column shapes drawn with every list of models: no difference, a not-null
\* column to add, a column to remove, a column to alter
FocusLive == {{IdColumn}, {IdColumn, Col("b", "int", FALSE, None)}}

FocusDesired == {{IdColumn}, {IdColumn, Col("b", "int", TRUE, None)}}

\* a run branches on the row flag only when a not-null column is to be added
RowChoices(lv, desired, live) ==
    IF live # {} /\ \E c \in desired : c.not_null /\ \A o \in lv : o.name # c.name
      THEN BOOLEAN ELSE {FALSE}

\* a post-action is carried by a column that is added or removed
ActionChoices(lv, desired) ==
    {{}} \cup {{c.name} : c \in {x \in lv \cup desired :
                                   \/ \A o \in lv : o.name # x.name
                                   \/ \A o \in desired : o.name # x.name}}

\* the bounded inputs: every list of models over a few column shapes
InitTables ==
    \E lv \in FocusLive, desired \in FocusDesired, live \in SUBSET TableNames :
        \E rows \in RowChoices(lv, desired, live) :
            /\ models \in ModelLists(desired, {})
            /\ db = LiveDb(live, lv, rows)

\* the bounded inputs: one model over every column shape
InitColumns ==
    \E lv \in ColumnSets, desired \in ColumnSets, live \in SUBSET TableNames :
        \E rows \in (IF live = {} THEN {FALSE} ELSE BOOLEAN),
           as \in ActionChoices(lv, desired) :
            /\ models \in {<<m>> : m \in ModelsNamed("t", desired, as)}
            /\ db = LiveDb(live, lv, rows)

\* the locals of migrate before its first statement
InitLocals ==
    /\ db0 = db
    /\ db_tables = <<>>
    /\ pc = "start"
    /\ i = 1
    /\ db_columns = {}
    /\ table_has_records = FALSE
    /\ manipulations = <<>>
    /\ k = 1
    /\ sub = "begin"
    /\ clauses = <<>>
    /\ j = 1
    /\ abort = ""
    /\ log = <<>>
    /\ account = <<>>
    /\ run = 1

InitMigrate ==
    /\ dialect \in Dialects
    /\ InitTables \/ InitColumns
    /\ InitLocals

\* no server, object or record is at hand
InitRest ==
    /\ sql = <<>>
    /\ row = <<>>
    /\ catalog = <<>>
    /\ object = <<>>
    /\ records = <<>>
    /\ finder = <<>>
    /\ result = <<>>

\* the variables of the other entry points while migrate runs
InitOthers ==
    /\ InitRest
    /\ self = [tag |-> "Null", v |-> <<>>]
    /\ field_type = [tag |-> "String"]
    /\ optional = FALSE
    /\ url = ""
    /\ reset = FALSE
    /\ files = <<>>

\* no connection is checked out and no call is under way
InitSequencing ==
    /\ conns = 0
    /\ inflight = 0
    /\ awaiting = FALSE

Init ==
    InitMigrate /\ str = <<>> /\ out = <<>> /\ InitOthers /\ InitSequencing /\ atomic = TRUE

(***************************************************************************)
(* migrate, statement by statement                                         *)
(***************************************************************************)
\* for model in models.iter().rev()
ModelReversed == models[Len(models) + 1 - i]

Model == models[i]

table_name == Model.name

\* for m in manipulations.iter().rev()
ManipulationReversed == manipulations[Len(manipulations) + 1 - k]

Manipulation == manipulations[k]

\* the arguments of the other entry points, which migrate does not see
rest == <<catalog, object, records, finder, result, sql, row>>

others == <<self, field_type, optional, url, reset, files, rest>>

frame == <<dialect, models, run, db0, str, out, others>>

sequencing == <<conns, inflight, awaiting, atomic>>

\* a step that makes no call
NoCall == UNCHANGED sequencing

\* a call that is started and left behind: the step goes on without its
\* completion
CompletesUnawaited ==
    /\ atomic \/ awaiting
    /\ awaiting' = FALSE
    /\ UNCHANGED <<inflight, atomic>>

\* .await: the step that follows a call is taken when the call has completed
Completes ==
    /\ atomic \/ awaiting
    /\ awaiting' = FALSE
    /\ inflight' = IF atomic THEN inflight ELSE inflight - 1
    /\ UNCHANGED atomic

\* a call on the connection checked out at the start of the run
Call == Completes /\ UNCHANGED conns

\* let conn = pool.check_out().await.unwrap();
\* let mut db_tables = Self::get_db_user_tables(dialect, &conn).await;
GetDbUserTables ==
    /\ Completes
    /\ conns' = conns + 1
    /\ pc = "start"
    /\ db_tables' = UserTables(db)
    /\ log' = Append(log, Ev("list_tables", "", ""))
    /\ pc' = "loop"
    /\ i' = 1
    /\ UNCHANGED <<db, db_columns, table_has_records, manipulations, k, sub,
                   clauses, j, abort, account, frame>>

\* a loop that passes over no model
SkippedNever(m) == FALSE

\* model.r#virtual(): the model is passed over by the loop
Skipped(m) == m.virtual

\* if model.r#virtual() { continue }
SkipVirtual ==
    /\ NoCall
    /\ pc = "loop" /\ i <= Len(models) /\ Skipped(Model)
    /\ i' = i + 1
    /\ UNCHANGED <<db, db_tables, pc, db_columns, table_has_records, manipulations,
                   k, sub, clauses, j, abort, log, account, frame>>

\* the test of the rename history, up to the call of rename_table
BeginModel ==
    /\ NoCall
    /\ pc = "loop" /\ i <= Len(models) /\ ~Skipped(Model)
    /\ pc' = IF WantsRename(Model, db_tables) THEN "rename" ELSE "exist"
    /\ UNCHANGED <<db, db_tables, i, db_columns, table_has_records, manipulations,
                   k, sub, clauses, j, abort, log, account, frame>>

\* rename_table, then the working set follows the rename
RenameTable ==
    /\ Call
    /\ pc = "rename"
    /\ LET old == FirstLiveOldName(Model, db_tables) IN
        /\ db[old].live /\ ~db[table_name].live
        /\ db' = DbRename(db, old, table_name)
        /\ db_tables' = RenameInList(db_tables, old, table_name)
        /\ log' = Append(log, Ev("rename_table", old, table_name))
        /\ account' = Append(account, [t |-> old, how |-> "renamed"])
    /\ pc' = "exist"
    /\ UNCHANGED <<i, db_columns, table_has_records, manipulations, k, sub,
                   clauses, j, abort, frame>>

\* is_table_exist, and for a live table its removal from the working set
CheckExist ==
    /\ NoCall
    /\ pc = "exist"
    /\ IF ~is_table_exist(db_tables, table_name)
         THEN /\ pc' = "create"
              /\ UNCHANGED <<db_tables, account>>
         ELSE /\ db_tables' = RemoveMatched(db_tables, table_name)
              /\ account' = IF log # <<>> /\ log[Len(log)].op = "rename_table"
                              THEN account
                              ELSE Append(account, [t |-> table_name, how |-> "matched"])
              /\ pc' = "db_columns"
    /\ UNCHANGED <<db, i, db_columns, table_has_records, manipulations, k, sub,
                   clauses, j, abort, log, frame>>

\* Self::create_table for a table that is not live
CreateTable ==
    /\ Call
    /\ pc = "create"
    /\ ~db[table_name].live
    /\ db' = DbCreate(db, Model)
    /\ db_tables' = TablesAfterCreate(db_tables, table_name)
    /\ log' = Append(log, Ev("create_table", table_name, ""))
    /\ pc' = "loop"
    /\ i' = i + 1
    /\ UNCHANGED <<db_columns, table_has_records, manipulations, k, sub,
                   clauses, j, abort, account, frame>>

\* Self::db_columns, then the gate on column altering for SQLite
DbColumns ==
    /\ Call
    /\ pc = "db_columns"
    /\ db[table_name].live
    /\ db_columns' = db[table_name].cols
    /\ log' = Append(log, Ev("describe", table_name, ""))
    /\ IF SqliteAlterGate(need_to_alter_any_columns(db[table_name].cols,
                                                     decode_model_columns(Model)),
                          dialect)
         THEN pc' = "aborted" /\ abort' = "sqlite_alter"
         ELSE pc' = "has_records" /\ abort' = abort
    /\ UNCHANGED <<db, db_tables, i, table_has_records, manipulations, k, sub,
                   clauses, j, account, frame>>

\* Self::table_has_records, the manipulations, and the choice of the path
TableHasRecords ==
    /\ Call
    /\ pc = "has_records"
    /\ db[table_name].live
    /\ table_has_records' = db[table_name].rows
    /\ log' = Append(log, Ev("has_records", table_name, ""))
    /\ manipulations' \in
          Orderings(ManipulationSet(db_columns, decode_model_columns(Model), Model))
    /\ IF TakesDestructivePath(db[table_name].rows, manipulations')
         THEN pc' = "recreate_drop"
         ELSE pc' = "manip"
    /\ k' = 1
    /\ sub' = "begin"
    /\ UNCHANGED <<db, db_tables, i, db_columns, clauses, j, abort, account, frame>>

\* an `if` without its `else`: the manipulations are applied to the new table too
AfterRecreateFallsThrough == "manip"

\* if .. { drop_table; create_table } else { for m in manipulations.iter() .. }:
\* the recreation is the whole of the model's processing
AfterRecreate == "loop"

\* Self::drop_table of the destructive path
RecreateDrop ==
    /\ Call
    /\ pc = "recreate_drop"
    /\ db[table_name].live
    /\ db' = DbDrop(db, table_name)
    /\ log' = Append(log, Ev("drop_table", table_name, "recreate"))
    /\ pc' = "recreate_create"
    /\ UNCHANGED <<db_tables, i, db_columns, table_has_records, manipulations, k,
                   sub, clauses, j, abort, account, frame>>

\* Self::create_table of the destructive path
RecreateCreate ==
    /\ Call
    /\ pc = "recreate_create"
    /\ ~db[table_name].live
    /\ db' = DbCreate(db, Model)
    /\ log' = Append(log, Ev("create_table", table_name, "recreate"))
    /\ pc' = AfterRecreate
    /\ i' = IF AfterRecreate = "loop" THEN i + 1 ELSE i
    /\ UNCHANGED <<db_tables, db_columns, table_has_records, manipulations, k, sub,
                   clauses, j, abort, account, frame>>


\* what a post-action may do: run to completion (with or without leaving rows
\* in the table) or fail
ActionOutcomes == {"ok", "rows", "fail"}

AfterAction(d, t, r) == IF r = "rows" THEN [d EXCEPT ![t].rows = TRUE] ELSE d

\* the match on the next manipulation, up to its first call
ManipBegin ==
    /\ NoCall
    /\ pc = "manip" /\ k <= Len(manipulations) /\ sub = "begin"
    /\ LET m == Manipulation
           cl == psql_alter_clauses(table_name, m.old, m.new)
       IN  CASE m.op = "add" ->
                  /\ sub' = IF m.new.not_null /\ m.default = NoValue
                              THEN "check" ELSE "exec"
                  /\ UNCHANGED <<k, clauses>>
             [] m.op = "remove" ->
                  /\ sub' = RemoveColumnFirstStep(m)
                  /\ UNCHANGED <<k, clauses>>
             [] m.op = "alter" /\ dialect # "PostgreSQL" ->
                  /\ sub' = "exec"
                  /\ UNCHANGED <<k, clauses>>
             [] m.op = "alter" /\ dialect = "PostgreSQL" ->
                  /\ clauses' = cl
                  /\ IF cl = <<>> THEN k' = k + 1 /\ sub' = "begin"
                                  ELSE k' = k /\ sub' = "clause"
    /\ UNCHANGED <<db, db_tables, pc, i, db_columns, table_has_records,
                   manipulations, j, abort, log, account, frame>>

\* a row check that reuses what was found before the manipulations began
HasRecordsCached(d, t, cached) == cached

\* let has_records = Self::table_has_records(dialect, &conn, table_name).await:
\* the table is queried again, whatever was found before
HasRecordsQuery(d, t, cached) == d[t].rows

\* AddColumn of a not-null column without default: the second row check
AddCheck ==
    /\ Call
    /\ pc = "manip" /\ k <= Len(manipulations) /\ sub = "check"
    /\ Manipulation.op = "add"
    /\ db[table_name].live
    /\ log' = Append(log, Ev("has_records", table_name, Manipulation.new.name))
    /\ IF HasRecordsQuery(db, table_name, table_has_records)
         THEN pc' = "aborted" /\ abort' = "non_null_add" /\ sub' = sub
         ELSE pc' = pc /\ abort' = abort /\ sub' = "exec"
    /\ UNCHANGED <<db, db_tables, i, db_columns, table_has_records, manipulations,
                   k, clauses, j, account, frame>>

\* the column an AddColumn puts in its statement: a copy with the default set
AddedColumn(m, d) ==
    IF m.default # NoValue
      THEN [m.new EXCEPT !.default = ToSQLString(m.default, d)]
      ELSE m.new

\* c.set_default(..) on the column the manipulation holds
SetDefaultInPlace(ms, n, d) == [ms EXCEPT ![n].new = AddedColumn(ms[n], d)]

\* let mut c = column.clone().clone(): the default is set on a copy and the
\* manipulations are left as they are
SetDefaultOnCopy(ms, n, d) == ms

\* ALTER TABLE ... ADD of an AddColumn
AddExec ==
    /\ Call
    /\ pc = "manip" /\ k <= Len(manipulations) /\ sub = "exec"
    /\ Manipulation.op = "add"
    /\ db[table_name].live
    /\ db' = DbAddColumn(db, table_name, AddedColumn(Manipulation, dialect))
    /\ manipulations' = SetDefaultOnCopy(manipulations, k, dialect)
    /\ log' = Append(log, Ev("add_column", table_name, Manipulation.new.name))
    /\ IF Manipulation.action THEN k' = k /\ sub' = "action"
                              ELSE k' = k + 1 /\ sub' = "begin"
    /\ UNCHANGED <<db_tables, pc, i, db_columns, table_has_records,
                   clauses, j, abort, account, frame>>

\* action.process(ctx) after the column was added
AddAction ==
    /\ Call
    /\ pc = "manip" /\ k <= Len(manipulations) /\ sub = "action"
    /\ Manipulation.op = "add"
    /\ \E r \in ActionOutcomes :
        /\ log' = Append(log, Ev("action", table_name, Manipulation.new.name))
        /\ db' = AfterAction(db, table_name, r)
        /\ IF r = "fail"
             THEN pc' = "aborted" /\ abort' = "action" /\ k' = k /\ sub' = sub
             ELSE pc' = pc /\ abort' = abort /\ k' = k + 1 /\ sub' = "begin"
    /\ UNCHANGED <<db_tables, i, db_columns, table_has_records, manipulations,
                   clauses, j, account, frame>>

\* ALTER TABLE ... MODIFY of an AlterColumn on a dialect other than PostgreSQL
AlterModify ==
    /\ Call
    /\ pc = "manip" /\ k <= Len(manipulations) /\ sub = "exec"
    /\ Manipulation.op = "alter"
    /\ db[table_name].live
    /\ db' = DbModify(db, table_name, Manipulation.new)
    /\ log' = Append(log, Ev("modify_column", table_name, Manipulation.new.name))
    /\ k' = k + 1
    /\ sub' = "begin"
    /\ UNCHANGED <<db_tables, pc, i, db_columns, table_has_records, manipulations,
                   clauses, j, abort, account, frame>>

\* one statement of psql_alter_clauses
AlterClause ==
    /\ Call
    /\ pc = "manip" /\ k <= Len(manipulations) /\ sub = "clause"
    /\ db[table_name].live
    /\ db' = DbClause(db, table_name, Head(clauses), Manipulation.new)
    /\ log' = Append(log, Head(clauses))
    /\ clauses' = Tail(clauses)
    /\ IF Tail(clauses) = <<>> THEN k' = k + 1 /\ sub' = "begin"
                               ELSE k' = k /\ sub' = sub
    /\ UNCHANGED <<db_tables, pc, i, db_columns, table_has_records, manipulations,
                   j, abort, account, frame>>

\* action.process(ctx) before the column is dropped
RemoveAction ==
    /\ Call
    /\ pc = "manip" /\ k <= Len(manipulations) /\ sub = "action"
    /\ Manipulation.op = "remove"
    /\ \E r \in ActionOutcomes :
        /\ log' = Append(log, Ev("action", table_name, Manipulation.old.name))
        /\ db' = AfterAction(db, table_name, r)
        /\ IF r = "fail"
             THEN pc' = "aborted" /\ abort' = "action" /\ sub' = sub
             ELSE pc' = pc /\ abort' = abort /\ sub' = "exec"
    /\ UNCHANGED <<db_tables, i, db_columns, table_has_records, manipulations, k,
                   clauses, j, account, frame>>

\* ALTER TABLE ... DROP COLUMN of a RemoveColumn
RemoveExec ==
    /\ Call
    /\ pc = "manip" /\ k <= Len(manipulations) /\ sub = "exec"
    /\ Manipulation.op = "remove"
    /\ db[table_name].live
    /\ db' = DbDropColumn(db, table_name, Manipulation.old.name)
    /\ log' = Append(log, Ev("drop_column", table_name, Manipulation.old.name))
    /\ k' = k + 1
    /\ sub' = "begin"
    /\ UNCHANGED <<db_tables, pc, i, db_columns, table_has_records, manipulations,
                   clauses, j, abort, account, frame>>

\* a loop that comes back to the model it has just processed
EndModelRevisits ==
    /\ NoCall
    /\ pc = "manip" /\ k > Len(manipulations)
    /\ pc' = "loop"
    /\ i' = i
    /\ UNCHANGED <<db, db_tables, db_columns, table_has_records, manipulations, k,
                   sub, clauses, j, abort, log, account, frame>>

\* the end of for m in manipulations.iter()
EndModel ==
    /\ NoCall
    /\ pc = "manip" /\ k > Len(manipulations)
    /\ pc' = "loop"
    /\ i' = i + 1
    /\ UNCHANGED <<db, db_tables, db_columns, table_has_records, manipulations, k,
                   sub, clauses, j, abort, log, account, frame>>

\* the end of for model in models
EndLoop ==
    /\ NoCall
    /\ pc = "loop" /\ i > Len(models)
    /\ pc' = "drop"
    /\ j' = 1
    /\ UNCHANGED <<db, db_tables, i, db_columns, table_has_records, manipulations,
                   k, sub, clauses, abort, log, account, frame>>

\* for table in db_tables { Self::drop_table(...) }
DropRemaining ==
    /\ Call
    /\ pc = "drop" /\ j <= Len(db_tables)
    /\ db[db_tables[j]].live
    /\ db' = DbDrop(db, db_tables[j])
    /\ log' = Append(log, Ev("drop_table", db_tables[j], "cleanup"))
    /\ account' = Append(account, [t |-> db_tables[j], how |-> "dropped"])
    /\ j' = j + 1
    /\ UNCHANGED <<db_tables, pc, i, db_columns, table_has_records, manipulations,
                   k, sub, clauses, abort, frame>>

\* migrate returns
Finish ==
    /\ NoCall
    /\ pc = "drop" /\ j > Len(db_tables)
    /\ pc' = "done"
    /\ UNCHANGED <<db, db_tables, i, db_columns, table_has_records, manipulations,
                   k, sub, clauses, j, abort, log, account, frame>>

\* a call on the connection is about to be made
CallPending ==
    \/ pc \in {"start", "rename", "create", "db_columns", "has_records",
               "recreate_drop", "recreate_create"}
    \/ pc = "drop" /\ j <= Len(db_tables)
    \/ pc = "manip" /\ k <= Len(manipulations) /\ sub \in {"check", "exec", "clause"}

\* a failed call whose error is dropped: the run goes on and makes the call again
CallFailsIgnored ==
    /\ Call
    /\ CallPending
    /\ abort' = "io"
    /\ UNCHANGED <<db, db_tables, pc, i, db_columns, table_has_records, manipulations,
                   k, sub, clauses, j, log, account, frame>>

\* conn.query(..).await.unwrap() / conn.execute(..).await.unwrap() on an Err
CallFails ==
    /\ Call
    /\ CallPending
    /\ pc' = "aborted"
    /\ abort' = "io"
    /\ UNCHANGED <<db, db_tables, i, db_columns, table_has_records, manipulations,
                   k, sub, clauses, j, log, account, frame>>

Next ==
    \/ GetDbUserTables
    \/ SkipVirtual
    \/ BeginModel
    \/ RenameTable
    \/ CheckExist
    \/ CreateTable
    \/ DbColumns
    \/ TableHasRecords
    \/ RecreateDrop
    \/ RecreateCreate
    \/ ManipBegin
    \/ AddCheck
    \/ AddExec
    \/ AddAction
    \/ AlterModify
    \/ AlterClause
    \/ RemoveAction
    \/ RemoveExec
    \/ EndModel
    \/ EndLoop
    \/ DropRemaining
    \/ Finish
    \/ CallFails

Spec == Init /\ [][Next]_vars


(***************************************************************************)
(* A second run of migrate against the database the first one left         *)
(***************************************************************************)
Rerun ==
    /\ conns' = 0
    /\ UNCHANGED <<inflight, awaiting, atomic>>
    /\ pc = "done" /\ run = 1
    /\ run' = run + 1
    /\ db0' = db
    /\ pc' = "start"
    /\ i' = 1
    /\ db_tables' = <<>>
    /\ db_columns' = {}
    /\ table_has_records' = FALSE
    /\ manipulations' = <<>>
    /\ k' = 1
    /\ sub' = "begin"
    /\ clauses' = <<>>
    /\ j' = 1
    /\ log' = <<>>
    /\ account' = <<>>
    /\ UNCHANGED <<dialect, models, db, abort, str, out, others>>

NextTwice == Next \/ Rerun

SpecTwice == Init /\ [][NextTwice]_vars

(***************************************************************************)
(* migrate with every call in two steps: started, then completed           *)
(***************************************************************************)
\* a call, or a post-action, is the next thing migrate does
AwaitPending ==
    \/ CallPending
    \/ pc = "manip" /\ k <= Len(manipulations) /\ sub = "action"

\* the future of the call is created and polled: the call is under way
Issue ==
    /\ ~atomic /\ AwaitPending /\ ~awaiting
    /\ awaiting' = TRUE
    /\ inflight' = inflight + 1
    /\ UNCHANGED <<db, db_tables, pc, i, db_columns, table_has_records, manipulations,
                   k, sub, clauses, j, abort, log, account, frame, conns, atomic>>

InitConn ==
    /\ dialect \in Dialects
    /\ InitColumns
    /\ InitLocals
    /\ str = <<>> /\ out = <<>>
    /\ InitOthers
    /\ InitSequencing
    /\ atomic = FALSE

NextConn == Next \/ Issue

SpecConn == InitConn /\ [][NextConn]_vars

(***************************************************************************)
(* The literal encoder applied to a string value                           *)
(***************************************************************************)
RECURSIVE StringsOfLen(_)
StringsOfLen(n) ==
    IF n = 0 THEN {<<>>}
    ELSE {Append(s, c) : s \in StringsOfLen(n - 1), c \in Chars}

Strings == UNION {StringsOfLen(n) : n \in 0..MaxStrLen}

InitEncode ==
    /\ dialect \in Dialects
    /\ str \in Strings
    /\ out = <<>>
    /\ pc = "encode"
    /\ models = <<>>
    /\ db = LiveDb({}, {}, FALSE)
    /\ db0 = db
    /\ db_tables = <<>>
    /\ i = 1
    /\ db_columns = {}
    /\ table_has_records = FALSE
    /\ manipulations = <<>>
    /\ k = 1
    /\ sub = "begin"
    /\ clauses = <<>>
    /\ j = 1
    /\ abort = ""
    /\ log = <<>>
    /\ account = <<>>
    /\ run = 1
    /\ InitOthers
    /\ InitSequencing
    /\ atomic = TRUE

\* Value::String(str).to_string(dialect)
EncodeString ==
    /\ NoCall
    /\ pc = "encode"
    /\ out' = ToSQLString(StringValue(str), dialect)
    /\ pc' = "encoded"
    /\ UNCHANGED <<dialect, models, db, db_tables, i, db_columns, table_has_records,
                   manipulations, k, sub, clauses, j, abort, log, account, run, db0,
                   str, others>>

NextEncode == EncodeString

SpecEncode == InitEncode /\ [][NextEncode]_vars


(***************************************************************************)
(* The value encoder applied to a value of any variant                     *)
(***************************************************************************)
MaxVecLen == 2

BaseFieldTags ==
    {"String", "Enum", "Bool", "F32", "F64", "ObjectId", "Other"} \cup IntFieldTags

FieldType(tag) == [tag |-> tag]

\* FieldType::Vec(element_field)
VecOf(ty, opt) == [tag |-> "Vec", elem |-> [type |-> ty, optional |-> opt]]

FieldTypes ==
    {FieldType(x) : x \in BaseFieldTags}
    \cup {VecOf(FieldType(x), o) : x \in {"String", "I64", "Bool", "Other"}, o \in BOOLEAN}

\* the patterns drawn for an integer of n bytes: around zero, around the sign
\* bit of the type, around the sign bit of 64 bits, and 2^64
IntPatterns(n) ==
    {[q \in 1..n |-> IF q = n THEN top ELSE fill] :
        top \in {0, 127, 128, 255}, fill \in {0, 1, 255}}
    \cup (IF n > 8
            THEN {[q \in 1..n |-> IF q = 9 THEN 1 ELSE 0],
                  [q \in 1..n |-> IF q = 8 THEN 128 ELSE 0],
                  [q \in 1..n |-> IF q <= 8 THEN 255 ELSE 0]}
            ELSE {})

ScalarValues ==
    {[tag |-> "Null", v |-> <<>>]}
    \cup {StringValue(cs) : cs \in {<<>>, <<"O">>, <<Quote>>}}
    \cup {[tag |-> "ObjectId", v |-> <<"O">>]}
    \cup {Bool(b) : b \in BOOLEAN}
    \cup UNION {{[tag |-> x, v |-> bs] : bs \in IntPatterns(Width(x))} : x \in IntTags}
    \cup {[tag |-> x, v |-> "1.5"] : x \in {"F32", "F64"}}
    \cup {[tag |-> x, v |-> <<>>] : x \in {"Decimal", "Map", "Object", "Json"}}

\* the elements drawn for a Value::Vec
ElementValues ==
    {[tag |-> "Null", v |-> <<>>], StringValue(<<Quote>>), Bool(TRUE),
     [tag |-> "I64", v |-> BytesOf(1, 8)]}

RECURSIVE VecsOfLen(_)
VecsOfLen(n) ==
    IF n = 0 THEN {<<>>}
    ELSE {Append(s, e) : s \in VecsOfLen(n - 1), e \in ElementValues}

VecValues == {[tag |-> "Vec", v |-> s] : s \in UNION {VecsOfLen(n) : n \in 0..MaxVecLen}}

Values == ScalarValues \cup VecValues

InitValue ==
    /\ dialect \in Dialects
    /\ self \in Values
    /\ field_type \in FieldTypes
    /\ optional \in BOOLEAN
    /\ out = Literal(<<>>)
    /\ pc = "value"
    /\ str = <<>>
    /\ url = ""
    /\ reset = FALSE
    /\ files = <<>>
    /\ InitRest
    /\ InitSequencing
    /\ atomic = TRUE
    /\ models = <<>>
    /\ db = LiveDb({}, {}, FALSE)
    /\ db0 = db
    /\ db_tables = <<>>
    /\ i = 1
    /\ db_columns = {}
    /\ table_has_records = FALSE
    /\ manipulations = <<>>
    /\ k = 1
    /\ sub = "begin"
    /\ clauses = <<>>
    /\ j = 1
    /\ abort = ""
    /\ log = <<>>
    /\ account = <<>>
    /\ run = 1

\* self.to_sql_string(r#type, optional, graph)
CallToSqlString ==
    /\ NoCall
    /\ pc = "value"
    /\ out' = to_sql_string(self, field_type, optional)
    /\ pc' = "to_sql_string"
    /\ UNCHANGED <<dialect, models, db, db_tables, i, db_columns, table_has_records,
                   manipulations, k, sub, clauses, j, abort, log, account, run, db0,
                   str, others>>

\* self.to_string(dialect)
CallToString ==
    /\ NoCall
    /\ pc = "value"
    /\ out' = ValueToString(self, dialect)
    /\ pc' = "to_string"
    /\ UNCHANGED <<dialect, models, db, db_tables, i, db_columns, table_has_records,
                   manipulations, k, sub, clauses, j, abort, log, account, run, db0,
                   str, others>>

NextValue == CallToSqlString \/ CallToString

SpecValue == InitValue /\ [][NextValue]_vars


(***************************************************************************)
(* Reading the history of a run                                            *)
(***************************************************************************)
\* the statements that change the schema (the conn.execute calls)
ColumnOps == {"add_column", "modify_column", "alter_type", "set_default",
              "drop_default", "drop_column"}

SchemaOps == ColumnOps \cup {"rename_table", "create_table", "drop_table"}

Events(ops, t) == {n \in 1..Len(log) : log[n].op \in ops /\ log[n].t = t}

Count(ops, t) == Cardinality(Events(ops, t))

CleanupDrops(t) ==
    Cardinality({n \in 1..Len(log) : log[n] = Ev("drop_table", t, "cleanup")})

RenamesFrom(t) == Count({"rename_table"}, t)

RenamesTo(t) ==
    Cardinality({n \in 1..Len(log) : log[n].op = "rename_table" /\ log[n].arg = t})

InitialLive == {t \in TableNames : db0[t].live}

NonVirtualNames == {models[n].name : n \in {q \in 1..Len(models) : ~models[q].virtual}}

DeclaredNames == {models[n].name : n \in 1..Len(models)}

\* migrate is past the row check of the current model and goes on with its table
Converging == pc \in {"recreate_drop", "recreate_create", "manip"}

\* the current table holds rows and a not-null column without default is to be added
DataLossHazard ==
    /\ table_has_records
    /\ \E n \in 1..Len(manipulations) :
          /\ manipulations[n].op = "add"
          /\ manipulations[n].new.not_null
          /\ manipulations[n].default = NoValue

(***************************************************************************)
(* C1. Safe-add gate: when the table of the current model holds rows and   *)
(* the manipulation list has an AddColumn for a not-null column with no    *)
(* default, the run aborts there: migrate never goes on with that table,   *)
(* and no schema-changing statement is executed against it after the       *)
(* hazard was found.                                                       *)
(***************************************************************************)
C1_SafeAddGate == ~(Converging /\ DataLossHazard)

(***************************************************************************)
(* C2. Destructive recreation is never implicit: migrate takes no reset    *)
(* flag, so no run is authorized, and no run issues the DROP TABLE of the  *)
(* drop-and-recreate path for the table of a declared model.               *)
(***************************************************************************)
C2_NoImplicitRecreate ==
    \A n \in 1..Len(log) :
        ~(log[n].op = "drop_table" /\ log[n].arg = "recreate"
            /\ log[n].t \in NonVirtualNames)


HistoryNames == UNION {Range(models[n].renamed) : n \in 1..Len(models)}

(***************************************************************************)
(* C3 as claimed. Drop-cleanup: when a run completes, each live table that *)
(* corresponds to no declared model (by name or by rename history) has     *)
(* received exactly one DROP TABLE of the cleanup loop, and no table named *)
(* like a declared model, virtual ones included, is in the drop set.       *)
(***************************************************************************)
C3_DropCleanup ==
    pc = "done" =>
        \A t \in TableNames :
            /\ (t \in InitialLive /\ t \notin DeclaredNames /\ t \notin HistoryNames)
                   => CleanupDrops(t) = 1
            /\ t \in DeclaredNames => CleanupDrops(t) = 0

(***************************************************************************)
(* C3 as amended. When a run completes, each live table that is neither    *)
(* the table of a declared non-virtual model nor in a rename history has   *)
(* received exactly one cleanup DROP TABLE (a live table named like a      *)
(* virtual model is such a table); at no point of any run has the table of *)
(* a declared non-virtual model received a cleanup DROP TABLE, and no      *)
(* table receives two.                                                     *)
(***************************************************************************)
C3_DropCleanupNonVirtual ==
    /\ pc = "done" =>
          \A t \in InitialLive :
              (t \notin NonVirtualNames /\ t \notin HistoryNames) => CleanupDrops(t) = 1
    /\ \A t \in NonVirtualNames : CleanupDrops(t) = 0
    /\ \A t \in TableNames : CleanupDrops(t) <= 1

\* a completed run that dropped an undeclared table, dropped the live table
\* named like a virtual model and kept the table of a non-virtual model
C3_Witness ==
    /\ pc = "done"
    /\ \E n \in 1..Len(models) :
          models[n].virtual /\ CleanupDrops(models[n].name) = 1
    /\ \E t \in NonVirtualNames : t \in InitialLive /\ db[t].live

(***************************************************************************)
(* C4. Rename detection: when table old_name is live, new_name is not, and *)
(* a model declares new_name with old_name as the first live name of its   *)
(* rename history (and no other model names or lists old_name), a          *)
(* completed run has issued exactly one RENAME for that table and no       *)
(* CREATE TABLE and no DROP TABLE for it under either name.                *)
(***************************************************************************)
RenameCase(n, old) ==
    /\ ~models[n].virtual
    /\ ~db0[models[n].name].live
    /\ HasLiveOldName(models[n], UserTables(db0))
    /\ FirstLiveOldName(models[n], UserTables(db0)) = old
    /\ \A q \in 1..Len(models) :
          q # n => models[q].name # old /\ old \notin Range(models[q].renamed)

C4_RenameDetection ==
    pc = "done" =>
        \A n \in 1..Len(models), old \in TableNames :
            RenameCase(n, old) =>
                /\ RenamesFrom(old) = 1
                /\ RenamesTo(models[n].name) = 1
                /\ Count({"create_table", "drop_table"}, old) = 0
                /\ Count({"create_table", "drop_table"}, models[n].name) = 0

(***************************************************************************)
(* C5. Idempotence: the second of two runs with the same models, started   *)
(* on the database the first one left, finds no manipulation to apply and  *)
(* issues no schema-changing statement.                                    *)
(***************************************************************************)
C5_Idempotent ==
    run = 2 =>
        /\ \A n \in 1..Len(log) : log[n].op \notin SchemaOps
        /\ Converging => manipulations = <<>>

(***************************************************************************)
(* C6. Working-set accounting: once the tables are listed, each of them is *)
(* handled at most once (matched and removed, or renamed, or dropped by    *)
(* the cleanup loop); those not handled yet are exactly the ones still in  *)
(* the working set; the statements issued agree with the accounting; and   *)
(* when the run completes every one of them has been handled exactly once. *)
(***************************************************************************)
Handled(t) == Cardinality({n \in 1..Len(account) : account[n].t = t})

HandledAs(t, how) == \E n \in 1..Len(account) : account[n] = [t |-> t, how |-> how]

\* rename_table has just run for the current model, whose name was pushed
JustRenamed == pc = "exist" /\ log # <<>> /\ log[Len(log)].op = "rename_table"

\* the entries of the working set still to be handled: those the cleanup loop
\* has not reached, without the name a rename has just pushed
Remaining ==
    {db_tables[q] : q \in j..Len(db_tables)} \ (IF JustRenamed THEN {table_name} ELSE {})

C6_WorkingSetAccounting ==
    log # <<>> =>
        \A t \in InitialLive :
            /\ Handled(t) <= 1
            /\ Handled(t) = 0 <=> t \in Remaining
            /\ HandledAs(t, "dropped") <=> CleanupDrops(t) = 1
            /\ HandledAs(t, "renamed") => RenamesFrom(t) = 1
            /\ HandledAs(t, "matched") => CleanupDrops(t) = 0
            /\ pc = "done" => Handled(t) = 1

\* a completed run in which one listed table was renamed and another one was
\* left in the working set and dropped
C6_Witness ==
    /\ pc = "done"
    /\ \E b \in InitialLive, c \in InitialLive :
          HandledAs(b, "renamed") /\ HandledAs(c, "dropped")

(***************************************************************************)
(* C7 as claimed. SQLite alter gate: when the run aborts because a column  *)
(* of the current table would have to be altered on SQLite, nothing has    *)
(* been executed for that table: no rename to its name, no column          *)
(* statement, no DROP or CREATE TABLE.                                     *)
(***************************************************************************)
C7_NothingExecuted ==
    abort = "sqlite_alter" =>
        /\ RenamesTo(table_name) = 0
        /\ Count(ColumnOps \cup {"create_table", "drop_table"}, table_name) = 0

(***************************************************************************)
(* C7 as amended. On SQLite, migrate never goes past the comparison of a   *)
(* table whose columns need an AlterColumn: it aborts there, and the abort *)
(* happens only in that case; at the abort no ADD/DROP/MODIFY COLUMN and   *)
(* no DROP or CREATE TABLE has been issued for that table (the rename of   *)
(* the table to the model's name, found in the history, may have been).    *)
(***************************************************************************)
C7_SqliteAlterGate ==
    /\ abort = "sqlite_alter" =>
          /\ dialect = "SQLite"
          /\ need_to_alter_any_columns(db_columns, decode_model_columns(Model))
          /\ Count(ColumnOps \cup {"create_table", "drop_table"}, table_name) = 0
    /\ (dialect = "SQLite" /\ (pc = "has_records" \/ Converging)) =>
          /\ ~need_to_alter_any_columns(db_columns, decode_model_columns(Model))
          /\ Count({"modify_column"}, table_name) = 0

\* the abort of the gate on a table that was renamed just before
C7_Witness == abort = "sqlite_alter" /\ RenamesTo(table_name) = 1

(***************************************************************************)
(* C8. Fresh create: for a declared non-virtual model of which neither the *)
(* name nor a previous name is live at the start, migrate issues at most   *)
(* one CREATE TABLE and nothing else that changes the schema; once the     *)
(* model has been processed it has issued exactly one. With a single model *)
(* and an empty database, the completed run is the listing of the tables   *)
(* and that CREATE TABLE, and the drop set is empty.                       *)
(***************************************************************************)
FreshCase(n) ==
    /\ ~models[n].virtual
    /\ ~db0[models[n].name].live
    /\ \A old \in Range(models[n].renamed) : ~db0[old].live

C8_FreshCreate ==
    /\ \A n \in 1..Len(models) :
          FreshCase(n) =>
              /\ Count({"create_table"}, models[n].name) <= 1
              /\ Count(SchemaOps \ {"create_table"}, models[n].name) = 0
              /\ RenamesTo(models[n].name) = 0
              /\ (i > n \/ pc = "done") => Count({"create_table"}, models[n].name) = 1
    /\ (pc = "done" /\ Len(models) = 1 /\ InitialLive = {} /\ ~models[1].virtual) =>
          /\ log = <<Ev("list_tables", "", ""), Ev("create_table", models[1].name, "")>>
          /\ db_tables = <<>>

\* a completed run that created one table afresh beside a live one
C8_Witness ==
    /\ pc = "done"
    /\ InitialLive # {}
    /\ \E n \in 1..Len(models) :
          FreshCase(n) /\ Count({"create_table"}, models[n].name) = 1

(***************************************************************************)
(* C9. Column removal is always safe: when the table of the current model  *)
(* holds rows and the only manipulation is the removal of a live column,   *)
(* migrate does not take the destructive path and does not abort for data  *)
(* loss; it issues one ALTER TABLE ... DROP COLUMN, after the post-action  *)
(* when one is declared, and no DROP TABLE for that table.                 *)
(***************************************************************************)
OnlyRemoval ==
    /\ table_has_records
    /\ Len(manipulations) = 1
    /\ manipulations[1].op = "remove"

C9_RemovalIsSafe ==
    /\ (pc = "manip" /\ OnlyRemoval) =>
          /\ Count({"drop_table", "create_table"} \cup (ColumnOps \ {"drop_column"}),
                   table_name) = 0
          /\ k = 1 => Count({"drop_column"}, table_name) = 0
          /\ (k = 1 /\ sub = "exec" /\ manipulations[1].action) =>
                log[Len(log)] = Ev("action", table_name, manipulations[1].old.name)
          /\ k = 2 =>
                /\ Count({"drop_column"}, table_name) = 1
                /\ log[Len(log)] = Ev("drop_column", table_name, manipulations[1].old.name)
                /\ manipulations[1].action =>
                      log[Len(log) - 1] = Ev("action", table_name, manipulations[1].old.name)
    /\ OnlyRemoval => pc \notin {"recreate_drop", "recreate_create"}
    /\ (abort = "non_null_add" /\ pc = "aborted") => ~OnlyRemoval
    /\ (pc = "done" /\ Len(models) = 1 /\ OnlyRemoval) =>
          /\ Count({"drop_column"}, models[1].name) = 1
          /\ Count({"drop_table"}, models[1].name) = 0

\* a not-null column without default was dropped, after its post-action, from
\* a table that holds rows
C9_Witness ==
    /\ pc = "manip" /\ OnlyRemoval /\ k = 2
    /\ manipulations[1].action
    /\ manipulations[1].old.not_null /\ manipulations[1].old.default = None
    /\ db[table_name].live /\ db[table_name].rows


(***************************************************************************)
(* C10. String literal round-trip: for a dialect that escapes quotes by    *)
(* doubling, the literal of a string is the string between single quotes   *)
(* with every internal quote doubled, and reading the literal by that rule *)
(* gives the string back.                                                  *)
(***************************************************************************)
DoublingDialects == {"SQLite", "PostgreSQL"}

RECURSIVE Doubled(_)
Doubled(cs) ==
    IF cs = <<>> THEN <<>>
    ELSE (IF Head(cs) = Quote THEN <<Quote, Quote>> ELSE <<Head(cs)>>)
         \o Doubled(Tail(cs))

RECURSIVE ReadDoubledBody(_)
\* the rest of a literal after its opening quote, read by the doubling rule
ReadDoubledBody(cs) ==
    IF cs = <<>> THEN [ok |-> FALSE, v |-> <<>>]
    ELSE IF Head(cs) # Quote
      THEN LET r == ReadDoubledBody(Tail(cs))
           IN  [ok |-> r.ok, v |-> <<Head(cs)>> \o r.v]
    ELSE IF Len(cs) = 1 THEN [ok |-> TRUE, v |-> <<>>]
    ELSE IF cs[2] = Quote
      THEN LET r == ReadDoubledBody(Tail(Tail(cs)))
           IN  [ok |-> r.ok, v |-> <<Quote>> \o r.v]
    ELSE [ok |-> FALSE, v |-> <<>>]

ReadDoubled(lit) ==
    IF lit # <<>> /\ Head(lit) = Quote THEN ReadDoubledBody(Tail(lit))
    ELSE [ok |-> FALSE, v |-> <<>>]

C10_StringRoundTrip ==
    (pc = "encoded" /\ dialect \in DoublingDialects) =>
        /\ out = <<Quote>> \o Doubled(str) \o <<Quote>>
        /\ ReadDoubled(out).ok
        /\ ReadDoubled(out).v = str

(***************************************************************************)
(* C11. Boolean literals are dialect-specific: to_string of a Bool gives   *)
(* 1 or 0 on SQLite, which has no native booleans, and the keyword TRUE or *)
(* FALSE on the dialects that have them.                                   *)
(***************************************************************************)
NoNativeBool == {"SQLite"}

BoolLiteral(b, d) ==
    IF d \in NoNativeBool THEN (IF b THEN "1" ELSE "0")
    ELSE (IF b THEN "TRUE" ELSE "FALSE")

C11_BoolByDialect ==
    (pc = "to_string" /\ self.tag = "Bool") =>
        out = Literal(<<BoolLiteral(self.v, dialect)>>)

(***************************************************************************)
(* C12. Abort on first I/O failure: a call on the connection that fails    *)
(* ends the run at once, with nothing executed by the failed call; and     *)
(* once the run has aborted no further step is taken: no retry, no other   *)
(* statement, no cleanup DROP TABLE.                                       *)
(***************************************************************************)
C12_AbortOnFailure ==
    [][ /\ pc # "aborted"
        /\ abort # "io"
        /\ abort' = "io" =>
              /\ CallPending
              /\ pc' = "aborted"
              /\ log' = log /\ db' = db /\ db_tables' = db_tables ]_vars

\* a call failed after a statement had changed the schema and while live
\* tables were still waiting in the working set for the cleanup loop
C12_Witness ==
    /\ pc = "aborted" /\ abort = "io"
    /\ \E n \in 1..Len(log) : log[n].op \in SchemaOps
    /\ \E q \in j..Len(db_tables) : db[db_tables[q]].live

(***************************************************************************)
(* C13 as claimed. Virtual models are skipped entirely: no call of any     *)
(* kind is made on the table that bears the name of a virtual model, and   *)
(* no table is renamed to that name, whether the table is live or not.     *)
(***************************************************************************)
OnTable(t) == {n \in 1..Len(log) : log[n].t = t}

VirtualNames == DeclaredNames \ NonVirtualNames

InModel ==
    pc \in {"rename", "exist", "create", "db_columns", "has_records",
            "recreate_drop", "recreate_create", "manip"}

OneAtATime ==
    /\ inflight \in {0, 1}
    /\ awaiting <=> inflight = 1
    /\ conns <= 1

C14_StrictSequencing ==
    [][ /\ OneAtATime /\ OneAtATime'
        /\ log' # log => (inflight = 1 /\ inflight' = 0 /\ conns' = 1)
        /\ db_tables' # db_tables => inflight' = 0
        /\ inflight' > inflight => (log' = log /\ db' = db /\ pc' = pc) ]_vars

\* a post-action is under way, alone, after the statement before it completed
C14_Witness ==
    /\ ~atomic /\ inflight = 1 /\ awaiting /\ conns = 1
    /\ pc = "manip" /\ k <= Len(manipulations) /\ sub = "action"
    /\ log # <<>> /\ log[Len(log)].op = "add_column"

(***************************************************************************)
(* C15. PostgreSQL alter synthesis: the statements executed for an         *)
(* AlterColumn(old, new) on PostgreSQL are an ALTER COLUMN TYPE if and     *)
(* only if the types differ, then a SET DEFAULT when a default is added or *)
(* changed, a DROP DEFAULT when the default is removed, and no default     *)
(* statement when the default is unchanged.                                *)
(***************************************************************************)
ClaimedClauses(t, old, new) ==
    (IF old.type # new.type THEN <<Ev("alter_type", t, new.name)>> ELSE <<>>)
    \o (IF new.default # None /\ old.default # new.default
          THEN <<Ev("set_default", t, new.name)>>
        ELSE IF old.default # None /\ new.default = None
          THEN <<Ev("drop_default", t, new.name)>>
        ELSE <<>>)

IsClauseOn(e, t, c) ==
    e.t = t /\ e.arg = c /\ e.op \in {"alter_type", "set_default", "drop_default"}

\* the clauses executed so far on column c of table t, in order
ClausesOn(t, c) ==
    LET F[n \in 0..Len(log)] ==
            IF n = 0 THEN <<>>
            ELSE IF IsClauseOn(log[n], t, c) THEN Append(F[n - 1], log[n])
            ELSE F[n - 1]
    IN  F[Len(log)]

C15_PsqlAlterSynthesis ==
    (dialect = "PostgreSQL" /\ pc = "manip") =>
        \A n \in 1..Len(manipulations) :
            (manipulations[n].op = "alter" /\ n < k) =>
                ClausesOn(table_name, manipulations[n].new.name)
                    = ClaimedClauses(table_name, manipulations[n].old, manipulations[n].new)

(***************************************************************************)
(* C16 as claimed. Un-encodable values are fatal: to_string panics on the  *)
(* variants it has no literal for, and to_sql_string panics on a field     *)
(* type it does not recognize, on Null with optional = false, and on a     *)
(* non-null value whose variant is not the one of the field type.          *)
(***************************************************************************)
\* the variant that belongs to a field type
VariantOf(ty) == IF ty.tag = "Enum" THEN "String" ELSE ty.tag

C16_FatalOnMismatch ==
    /\ (pc = "to_string" /\ self.tag \in UnhandledTags) => out.panic
    /\ pc = "to_sql_string" =>
          /\ (field_type.tag \in {"ObjectId", "Other"} /\ ~(optional /\ is_null(self)))
                => out.panic
          /\ (is_null(self) /\ ~optional) => out.panic
          /\ (~is_null(self) /\ self.tag # VariantOf(field_type)) => out.panic

(***************************************************************************)
(* C16 as amended. to_string panics exactly on ObjectId, Decimal, Vec,     *)
(* Map, Object and Json. to_sql_string, unless it is given Null with       *)
(* optional = true, panics exactly when the field type has no arm, or the  *)
(* accessor of its arm does not accept the value: String and Enum accept   *)
(* String and ObjectId, Bool accepts Bool, every integer type accepts      *)
(* every integer variant, F32 and F64 accept every number, Vec accepts a   *)
(* Vec whose elements are all accepted for the element type. Null with     *)
(* optional = false is never accepted. A panic returns no literal.         *)
(***************************************************************************)
RECURSIVE Accepted(_, _, _)
Accepted(value, ty, opt) ==
    \/ opt /\ value.tag = "Null"
    \/ ty.tag \in {"String", "Enum"} /\ value.tag \in {"String", "ObjectId"}
    \/ ty.tag = "Bool" /\ value.tag = "Bool"
    \/ ty.tag \in IntTags /\ value.tag \in IntTags
    \/ ty.tag \in {"F32", "F64"} /\ value.tag \in IntTags \cup {"F32", "F64"}
    \/ /\ ty.tag = "Vec" /\ value.tag = "Vec"
       /\ \A q \in 1..Len(value.v) : Accepted(value.v[q], ty.elem.type, ty.elem.optional)

C16_FatalWhenNotAccepted ==
    /\ pc = "to_string" =>
          /\ out.panic <=> self.tag \in {"ObjectId", "Decimal", "Vec", "Map", "Object", "Json"}
          /\ out.panic => out.lit = <<>>
          /\ ~out.panic => out.lit # <<>>
    /\ pc = "to_sql_string" =>
          /\ out.panic <=> ~Accepted(self, field_type, optional)
          /\ out.panic => out.lit = <<>>
          /\ ~out.panic => out.lit # <<>>
          /\ (is_null(self) /\ ~optional) => out.panic
          /\ (field_type.tag \in {"ObjectId", "Other"} /\ ~(optional /\ is_null(self)))
                => out.panic

\* to_string panicked on a variant it has no literal for
C16_Witness == pc = "to_string" /\ self.tag = "Decimal" /\ out.panic

(***************************************************************************)
(* C17. Array encoding is gated by dialect capability: an array value      *)
(* encoded for a dialect without array columns gives no literal, it fails; *)
(* for a dialect with array columns it gives the ARRAY[...] literal.       *)
(***************************************************************************)
ArrayDialects == {"PostgreSQL"}

C17_ArrayGate ==
    (pc = "to_sql_string" /\ field_type.tag = "Vec" /\ self.tag = "Vec") =>
        IF dialect \in ArrayDialects
          THEN Accepted(self, field_type, optional) => ~out.panic
          ELSE out.panic

(***************************************************************************)
(* C18. Null encoding: to_sql_string of a Null value with optional = true  *)
(* returns the literal NULL for every field type, the types that are fatal *)
(* for every other value included, and to_string of Null returns NULL for  *)
(* every dialect.                                                          *)
(***************************************************************************)
NullLiteral == Literal(<<"NULL">>)

C18_NullEncoding ==
    /\ (pc = "to_sql_string" /\ optional /\ self.tag = "Null") => out = NullLiteral
    /\ (pc = "to_string" /\ self.tag = "Null") => out = NullLiteral

C18_Witness ==
    /\ pc = "to_sql_string"
    /\ optional
    /\ self.tag = "Null"
    /\ field_type.tag \in {"Other", "ObjectId"}
    /\ out = NullLiteral

(***************************************************************************)
(* C19. Integer encoding preserves the value: for every integer field type *)
(* and every integer variant, to_sql_string renders the decimal numeral of *)
(* exactly the integer held, with no wrap-around and no truncation.        *)
(***************************************************************************)
C19_IntegerPreserved ==
    (pc = "to_sql_string" /\ field_type.tag \in IntFieldTags /\ self.tag \in IntTags) =>
        out = Literal(<<IntToString(self.tag, self.v)>>)

(***************************************************************************)
(* create_sqlite_database_if_needed and the file system                    *)
(***************************************************************************)
Scheme == "sqlite:"

Memory == ":memory:"

Root == "/"

\* the working directory relative paths are resolved against
Cwd == <<Root, "cwd">>

\* a URL is held piece by piece: an optional scheme, then the path
Urls ==
    {<<Scheme, Memory>>, <<Memory>>,
     <<Scheme, "a.db">>, <<"a.db">>,
     <<Scheme, Root, "a.db">>, <<Root, "a.db">>}

Paths == {<<Root, "a.db">>, Cwd \o <<"a.db">>}

\* url_utils::remove_scheme
remove_scheme(u) == IF Head(u) = Scheme THEN Tail(u) ELSE u

\* url_utils::is_memory_url
is_memory_url(u) == u = <<Memory>>

\* url_utils::absolutized
absolutized(u) == IF Head(u) = Root THEN u ELSE Cwd \o u

\* a path holds no file, a database with data in it, or a file of length zero;
\* `was` keeps what the path held when the function was called
FileKinds == {"absent", "data", "empty"}

File(kind) == [was |-> kind, now |-> kind]

\* Path::exists
exists(fs, p) == fs[p].now # "absent"

\* fs::remove_file that succeeds
remove_file(fs, p) == [fs EXCEPT ![p].now = "absent"]

\* a file opened for writing with what it holds left in place
FileOpenKeeps(fs, p) ==
    [fs EXCEPT ![p].now = IF fs[p].now = "absent" THEN "empty" ELSE fs[p].now]

\* fs::File::create that succeeds: the file is created, or truncated if it is there
FileCreate(fs, p) == [fs EXCEPT ![p].now = "empty"]

absolutized_url == absolutized(remove_scheme(url))

InitFile ==
    /\ dialect = "SQLite"
    /\ url \in Urls
    /\ reset \in BOOLEAN
    /\ files \in [Paths -> {File(kind) : kind \in FileKinds}]
    /\ InitRest
    /\ pc = "create_sqlite_database_if_needed"
    /\ self = [tag |-> "Null", v |-> <<>>]
    /\ field_type = [tag |-> "String"]
    /\ optional = FALSE
    /\ str = <<>>
    /\ out = <<>>
    /\ models = <<>>
    /\ db = LiveDb({}, {}, FALSE)
    /\ db0 = db
    /\ db_tables = <<>>
    /\ i = 1
    /\ db_columns = {}
    /\ table_has_records = FALSE
    /\ manipulations = <<>>
    /\ k = 1
    /\ sub = "begin"
    /\ clauses = <<>>
    /\ j = 1
    /\ abort = ""
    /\ log = <<>>
    /\ account = <<>>
    /\ run = 1
    /\ InitSequencing
    /\ atomic = TRUE

FileFrame ==
    UNCHANGED <<dialect, models, db, db_tables, i, db_columns, table_has_records,
                manipulations, k, sub, clauses, j, account, run, db0, str, out,
                self, field_type, optional, url, reset, rest>>

\* if url_utils::is_memory_url(url) { return }
MemoryReturn ==
    /\ NoCall
    /\ pc = "create_sqlite_database_if_needed"
    /\ is_memory_url(remove_scheme(url))
    /\ pc' = "returned"
    /\ UNCHANGED <<files, log, abort>>
    /\ FileFrame

\* if absolutized_url.exists() && reset { let _ = fs::remove_file(..); }
\* the result of remove_file is dropped: a file that could not be removed
\* stays and the function goes on
RemoveFile ==
    /\ NoCall
    /\ pc = "create_sqlite_database_if_needed"
    /\ ~is_memory_url(remove_scheme(url))
    /\ exists(files, absolutized_url) /\ reset
    /\ \E ok \in BOOLEAN :
          /\ files' = IF ok THEN remove_file(files, absolutized_url) ELSE files
          /\ log' = Append(log, Ev("remove_file", absolutized_url, ok))
    /\ pc' = "create"
    /\ UNCHANGED abort
    /\ FileFrame

SkipRemove ==
    /\ NoCall
    /\ pc = "create_sqlite_database_if_needed"
    /\ ~is_memory_url(remove_scheme(url))
    /\ ~(exists(files, absolutized_url) /\ reset)
    /\ pc' = "create"
    /\ UNCHANGED <<files, log, abort>>
    /\ FileFrame

\* if !absolutized_url.exists() || reset { fs::File::create(..).expect(..); }
CreateFile ==
    /\ NoCall
    /\ pc = "create"
    /\ ~exists(files, absolutized_url) \/ reset
    /\ \E ok \in BOOLEAN :
          /\ files' = IF ok THEN FileCreate(files, absolutized_url) ELSE files
          /\ log' = Append(log, Ev("create", absolutized_url, ok))
          /\ pc' = IF ok THEN "returned" ELSE "panicked"
          /\ abort' = IF ok THEN abort ELSE "SQLite database file create failed."
    /\ FileFrame

KeepFile ==
    /\ NoCall
    /\ pc = "create"
    /\ ~(~exists(files, absolutized_url) \/ reset)
    /\ pc' = "returned"
    /\ UNCHANGED <<files, log, abort>>
    /\ FileFrame

NextFile == MemoryReturn \/ RemoveFile \/ SkipRemove \/ CreateFile \/ KeepFile

SpecFile == InitFile /\ [][NextFile]_vars

Untouched == log = <<>> /\ \A p \in Paths : files[p].now = files[p].was

Removed(p) == \E n \in 1..Len(log) : log[n] = Ev("remove_file", p, TRUE)

RemoveTried(p) == \E n \in 1..Len(log) : log[n].op = "remove_file" /\ log[n].t = p

ReturnedFor(p) ==
    /\ pc = "returned"
    /\ ~is_memory_url(remove_scheme(url))
    /\ p = absolutized_url

(***************************************************************************)
(* C20. File-based database creation: after the function returns for a     *)
(* non-memory URL the database file exists; with reset an existing file is *)
(* deleted before the new one is created; without reset an existing file   *)
(* is neither deleted nor re-created; for an in-memory URL no file is      *)
(* created or deleted.                                                     *)
(***************************************************************************)
C20_FileCreation ==
    /\ \A p \in Paths : ReturnedFor(p) => exists(files, p)
    /\ \A p \in Paths : (ReturnedFor(p) /\ reset /\ files[p].was # "absent") =>
          /\ Removed(p)
          /\ log[Len(log)] = Ev("create", p, TRUE)
    /\ \A p \in Paths : (ReturnedFor(p) /\ ~reset /\ files[p].was # "absent") => Untouched
    /\ (pc = "returned" /\ is_memory_url(remove_scheme(url))) => Untouched

\* C20 as amended: with reset the removal of an existing file is tried and its
\* failure ignored, and the file is then created or truncated, so that it is
\* of length zero on return whether or not the removal succeeded
C20_FileCreationTruncates ==
    /\ \A p \in Paths : ReturnedFor(p) => exists(files, p)
    /\ \A p \in Paths : (ReturnedFor(p) /\ reset) =>
          /\ files[p].was # "absent" => RemoveTried(p) /\ log[1].op = "remove_file"
          /\ log[Len(log)] = Ev("create", p, TRUE)
          /\ files[p].now = "empty"
          /\ \A q \in Paths \ {p} : files[q].now = files[q].was
    /\ \A p \in Paths : (ReturnedFor(p) /\ ~reset /\ files[p].was # "absent") => Untouched
    /\ (pc = "returned" /\ is_memory_url(remove_scheme(url))) => Untouched

C20_Witness ==
    /\ ReturnedFor(absolutized_url)
    /\ reset
    /\ files[absolutized_url].was = "data"
    /\ log = <<Ev("remove_file", absolutized_url, FALSE), Ev("create", absolutized_url, TRUE)>>
    /\ files[absolutized_url].now = "empty"

(***************************************************************************)
(* create_server_database_if_needed and the database server                *)
(***************************************************************************)
ServerDialects == Dialects \ {"SQLite"}

DbNames == {"a", "b"}

\* a server URL is held piece by piece: scheme and authority, then the path
ServerUrls == {<<"//host", Root, name>> : name \in DbNames}

\* &url.path()[1..]
db_name == url[3]

\* a database is absent, holds tables, or is empty
Database(kind) == [was |-> kind, now |-> kind]

\* DROP DATABASE IF EXISTS
DropDatabase(cat, name) == [cat EXCEPT ![name].now = "absent"]

\* CREATE DATABASE [IF NOT EXISTS]
CreateDatabase(cat, name) ==
    [cat EXCEPT ![name].now = IF cat[name].now = "absent" THEN "empty" ELSE cat[name].now]

\* select from pg_database where datname = '{}': result.is_empty()
is_empty(cat, name) == cat[name].now = "absent"

\* a database dropped whatever the flag
DropAlways(r) == TRUE

\* if reset { .. }
DropNeeded(r) == r

InitMigrateIdle ==
    /\ sql = <<>>
    /\ models = <<>>
    /\ db = LiveDb({}, {}, FALSE)
    /\ db0 = db
    /\ db_tables = <<>>
    /\ i = 1
    /\ db_columns = {}
    /\ table_has_records = FALSE
    /\ manipulations = <<>>
    /\ k = 1
    /\ sub = "begin"
    /\ clauses = <<>>
    /\ j = 1
    /\ abort = ""
    /\ log = <<>>
    /\ account = <<>>
    /\ run = 1
    /\ str = <<>>
    /\ out = <<>>
    /\ InitSequencing
    /\ atomic = TRUE

InitServer ==
    /\ dialect \in ServerDialects
    /\ url \in ServerUrls
    /\ reset \in BOOLEAN
    /\ catalog \in [DbNames -> {Database(kind) : kind \in FileKinds}]
    /\ pc = "create_server_database_if_needed"
    /\ self = [tag |-> "Null", v |-> <<>>]
    /\ field_type = [tag |-> "String"]
    /\ optional = FALSE
    /\ files = <<>>
    /\ object = <<>>
    /\ records = <<>>
    /\ finder = <<>>
    /\ result = <<>>
    /\ row = <<>>
    /\ InitMigrateIdle

ServerFrame ==
    UNCHANGED <<dialect, models, db, db_tables, i, db_columns, table_has_records,
                manipulations, k, sub, clauses, j, account, run, db0, str, out,
                self, field_type, optional, url, reset, files, object, records,
                finder, result, sql, row>>

\* let conn = pool.check_out().await.unwrap();
CheckOut ==
    /\ Completes
    /\ conns' = conns + 1
    /\ pc = "create_server_database_if_needed"
    /\ pc' = "server_drop"
    /\ UNCHANGED <<catalog, log, abort>>
    /\ ServerFrame

\* if reset { conn.execute(DROP DATABASE IF EXISTS db_name).await.unwrap(); }
ExecDrop ==
    /\ Call
    /\ pc = "server_drop"
    /\ DropNeeded(reset)
    /\ \E ok \in BOOLEAN :
          /\ catalog' = IF ok THEN DropDatabase(catalog, db_name) ELSE catalog
          /\ log' = Append(log, Ev("drop_database", db_name, ok))
          /\ pc' = IF ok THEN "server_create" ELSE "panicked"
          /\ abort' = IF ok THEN abort ELSE "unwrap"
    /\ ServerFrame

SkipDrop ==
    /\ NoCall
    /\ pc = "server_drop"
    /\ ~DropNeeded(reset)
    /\ pc' = "server_create"
    /\ UNCHANGED <<catalog, log, abort>>
    /\ ServerFrame

\* let result = conn.query(select from pg_database where datname = ..).await.unwrap();
QueryPgDatabase ==
    /\ Call
    /\ pc = "server_create"
    /\ dialect = "PostgreSQL"
    /\ \E ok \in BOOLEAN :
          /\ log' = Append(log, Ev("select_pg_database", db_name,
                                   ok /\ is_empty(catalog, db_name)))
          /\ pc' = IF ~ok THEN "panicked"
                   ELSE IF is_empty(catalog, db_name) THEN "pg_create" ELSE "server_use"
          /\ abort' = IF ok THEN abort ELSE "unwrap"
    /\ UNCHANGED catalog
    /\ ServerFrame

\* if result.is_empty() { conn.execute(CREATE DATABASE db_name).await.unwrap(); }
ExecCreate ==
    /\ Call
    /\ pc = "pg_create"
    /\ \E ok \in BOOLEAN :
          /\ catalog' = IF ok THEN CreateDatabase(catalog, db_name) ELSE catalog
          /\ log' = Append(log, Ev("create_database", db_name, ok))
          /\ pc' = IF ok THEN "server_use" ELSE "panicked"
          /\ abort' = IF ok THEN abort ELSE "unwrap"
    /\ ServerFrame

\* else { conn.execute(CREATE DATABASE IF NOT EXISTS db_name).await.unwrap(); }
ExecCreateIfNotExists ==
    /\ Call
    /\ pc = "server_create"
    /\ dialect # "PostgreSQL"
    /\ \E ok \in BOOLEAN :
          /\ catalog' = IF ok THEN CreateDatabase(catalog, db_name) ELSE catalog
          /\ log' = Append(log, Ev("create_database_if_not_exists", db_name, ok))
          /\ pc' = IF ok THEN "server_use" ELSE "panicked"
          /\ abort' = IF ok THEN abort ELSE "unwrap"
    /\ ServerFrame

\* SET search_path TO db_name (PostgreSQL) / USE db_name (raw_cmd)
UseDatabase ==
    /\ Call
    /\ pc = "server_use"
    /\ \E ok \in BOOLEAN :
          /\ log' = Append(log, Ev(IF dialect = "PostgreSQL" THEN "set_search_path" ELSE "use",
                                   db_name, ok))
          /\ pc' = IF ok THEN "returned" ELSE "panicked"
          /\ abort' = IF ok THEN abort ELSE "unwrap"
    /\ UNCHANGED catalog
    /\ ServerFrame

NextServer ==
    \/ CheckOut
    \/ ExecDrop
    \/ SkipDrop
    \/ QueryPgDatabase
    \/ ExecCreate
    \/ ExecCreateIfNotExists
    \/ UseDatabase

SpecServer == InitServer /\ [][NextServer]_vars

DropOps == {"drop_database"}

CreateOps == {"create_database", "create_database_if_not_exists"}

UseOps == {"set_search_path", "use"}

IssuedOp(ops) == \E n \in 1..Len(log) : log[n].op \in ops

PastDrop == pc \in {"server_create", "pg_create", "server_use", "returned"}

PastCreate == pc \in {"server_use", "returned"}

(***************************************************************************)
(* C21. Server database creation: DROP DATABASE is issued if and only if   *)
(* reset is true, and before any CREATE DATABASE; the database is then     *)
(* made to exist (PostgreSQL: CREATE DATABASE only when the catalog query  *)
(* returned no row; other dialects: CREATE DATABASE IF NOT EXISTS); the    *)
(* use-database command is issued last, when the database exists.          *)
(***************************************************************************)
C21_ServerCreation ==
    /\ IssuedOp(DropOps) => reset
    /\ (PastDrop /\ reset) => log[1] = Ev("drop_database", db_name, TRUE)
    /\ \A m, n \in 1..Len(log) :
          (log[m].op \in DropOps /\ log[n].op \in CreateOps) => m < n
    /\ \A n \in 1..Len(log) :
          /\ log[n].op = "create_database" =>
                dialect = "PostgreSQL" /\ n > 1 /\ log[n - 1] = Ev("select_pg_database", db_name, TRUE)
          /\ log[n].op = "create_database_if_not_exists" => dialect # "PostgreSQL"
          /\ (log[n] = Ev("select_pg_database", db_name, TRUE) /\ PastCreate) =>
                n < Len(log) /\ log[n + 1] = Ev("create_database", db_name, TRUE)
          /\ log[n].op \in UseOps => n = Len(log) /\ catalog[db_name].now # "absent"
    /\ (PastCreate /\ dialect # "PostgreSQL") =>
          \E n \in 1..Len(log) : log[n] = Ev("create_database_if_not_exists", db_name, TRUE)
    /\ PastCreate => catalog[db_name].now # "absent"
    /\ pc = "returned" =>
          /\ log[Len(log)].op \in UseOps /\ log[Len(log)].arg = TRUE
          /\ Cardinality({n \in 1..Len(log) : log[n].op \in UseOps}) = 1
          /\ \A name \in DbNames \ {db_name} : catalog[name].now = catalog[name].was

C21_Witness ==
    /\ pc = "returned"
    /\ dialect = "PostgreSQL"
    /\ reset
    /\ catalog[db_name].was = "data"
    /\ catalog[db_name].now = "empty"
    /\ Len(log) = 4

(***************************************************************************)
(* C22. The Model representation is never mutated: no step of migrate      *)
(* changes a Model, and no step changes a column held by a manipulation of *)
(* the table being processed; the default of an AddColumn is set on a copy *)
(* of the column, which is what the statement adds to the table.           *)
(***************************************************************************)
SameTable == pc = "manip" /\ pc' = "manip" /\ i' = i

C22_ModelNeverMutated ==
    [][/\ models' = models
       /\ SameTable => manipulations' = manipulations
       /\ (SameTable /\ Manipulation.op = "add" /\ sub = "exec" /\ sub' # "exec") =>
             AddedColumn(Manipulation, dialect) \in db'[table_name].cols]_vars

C22_Witness ==
    /\ pc = "manip"
    /\ \E n \in 1..Len(manipulations) :
          /\ n < k \/ (n = k /\ sub = "action")
          /\ manipulations[n].op = "add"
          /\ manipulations[n].default # NoValue
          /\ AddedColumn(manipulations[n], dialect) # manipulations[n].new
          /\ AddedColumn(manipulations[n], dialect) \in db[table_name].cols

(***************************************************************************)
(* Objects: set_json, set_value, get_value and to_json                     *)
(***************************************************************************)
MaxCalls == 2

\* the fields of the models of tests/core/properties.rs, one object holding
\* one field of each kind
ObjectFields == {"string", "readonly", "writeonly", "internal"}

\* f.readonly() / f.internal(): the field takes no value from an input
readonly(f) == f \in {"readonly", "internal"}

\* f.writeonly() / f.internal(): the field is left out of every output
writeonly(f) == f \in {"writeonly", "internal"}

JsonNull == "null"

\* the JSON objects given to set_json
JsonInputs == UNION {[S -> {v}] : S \in SUBSET ObjectFields, v \in {"a", JsonNull}}

SetValues == {"a", "b"}

Ok(x) == [ok |-> TRUE, v |-> x]

Err(e) == [ok |-> FALSE, v |-> e]

\* Error::unexpected_input_key
unexpected_input_key(key) ==
    [type |-> "UnexpectedInput", message |-> <<"Unexpected key '", key, "'.">>]

\* a JSON value as the Option<Value> an object holds
FromJson(v) == IF v = JsonNull THEN NoOption ELSE Some(v)

\* the keys of an input that set_json refuses
Unallowed(input) == {key \in DOMAIN input : readonly(key)}

\* object.set_json(&input): the keys are checked before any value is stored
set_json(obj, input) ==
    IF Unallowed(input) # {}
      THEN [object |-> obj,
            result |-> Err(unexpected_input_key(CHOOSE key \in Unallowed(input) : TRUE))]
      ELSE [object |-> [f \in ObjectFields |->
                           IF f \in DOMAIN input THEN FromJson(input[f]) ELSE obj[f]],
            result |-> Ok(<<>>)]

\* object.set_value(key, value)
set_value(obj, key, v) == [obj EXCEPT ![key] = Some(v)]

\* object.get_value(key)
get_value(obj, key) == Ok(obj[key])

\* an output with every field that holds a value
ToJsonEveryField(obj) ==
    Ok([f \in {x \in ObjectFields : obj[x].some} |-> obj[f].v])

\* object.to_json()
to_json(obj) ==
    Ok([f \in {x \in ObjectFields : ~writeonly(x) /\ obj[x].some} |-> obj[f].v])

\* graph.create_object(model, json!({}))
InitObject ==
    /\ object = [f \in ObjectFields |-> NoOption]
    /\ finder = <<>>
    /\ result = Ok(<<>>)
    /\ pc = "create_object"
    /\ dialect = "SQLite"
    /\ self = [tag |-> "Null", v |-> <<>>]
    /\ field_type = [tag |-> "String"]
    /\ optional = FALSE
    /\ url = ""
    /\ reset = FALSE
    /\ files = <<>>
    /\ catalog = <<>>
    /\ records = <<>>
    /\ row = <<>>
    /\ InitMigrateIdle

ObjectFrame ==
    UNCHANGED <<dialect, models, db, db_tables, i, db_columns, table_has_records,
                manipulations, k, sub, clauses, j, abort, account, run, db0, str, out,
                self, field_type, optional, url, reset, files, catalog, records, sql, row>>

SetJson ==
    /\ NoCall
    /\ Len(log) < MaxCalls
    /\ \E input \in JsonInputs :
          /\ finder' = input
          /\ object' = set_json(object, input).object
          /\ result' = set_json(object, input).result
          /\ log' = Append(log, Ev("set_json", input, set_json(object, input).result.ok))
    /\ pc' = "set_json"
    /\ ObjectFrame

SetValue ==
    /\ NoCall
    /\ Len(log) < MaxCalls
    /\ \E key \in ObjectFields, v \in SetValues :
          /\ finder' = <<key, v>>
          /\ object' = set_value(object, key, v)
          /\ log' = Append(log, Ev("set_value", key, v))
    /\ result' = Ok(<<>>)
    /\ pc' = "set_value"
    /\ ObjectFrame

GetValue ==
    /\ NoCall
    /\ \E key \in ObjectFields :
          /\ finder' = key
          /\ result' = get_value(object, key)
    /\ pc' = "get_value"
    /\ UNCHANGED <<object, log>>
    /\ ObjectFrame

ToJson ==
    /\ NoCall
    /\ finder' = <<>>
    /\ result' = to_json(object)
    /\ pc' = "to_json"
    /\ UNCHANGED <<object, log>>
    /\ ObjectFrame

NextObject == SetJson \/ SetValue \/ GetValue \/ ToJson

SpecObject == InitObject /\ [][NextObject]_vars

\* the calls that stored a value in the field
Stores(key) ==
    {n \in 1..Len(log) :
        \/ log[n].op = "set_value" /\ log[n].t = key
        \/ log[n].op = "set_json" /\ log[n].arg /\ key \in DOMAIN log[n].t}

Last(S) == CHOOSE n \in S : \A q \in S : q <= n

\* the value the last of these calls stored
LastStored(key) ==
    IF Stores(key) = {} THEN NoOption
    ELSE LET e == log[Last(Stores(key))]
         IN  IF e.op = "set_value" THEN Some(e.arg) ELSE FromJson(e.t[key])

keys_unallowed == [type |-> "KeysUnallowed", message |-> <<>>]

(***************************************************************************)
(* C23. Write protection of fields: set_json with an input holding the key *)
(* of a readonly or internal field fails with the keys_unallowed error,    *)
(* while set_value on that field succeeds and a following get_value        *)
(* returns exactly the value that was set.                                 *)
(***************************************************************************)
C23_WriteProtection ==
    /\ (pc = "set_json" /\ Unallowed(finder) # {}) =>
          ~result.ok /\ result.v = keys_unallowed
    /\ (pc = "set_value" /\ readonly(finder[1])) => result.ok
    /\ (pc = "get_value" /\ readonly(finder) /\ Len(log) > 0
          /\ log[Len(log)].op = "set_value" /\ log[Len(log)].t = finder) =>
          result.ok /\ result.v = Some(log[Len(log)].arg)

Hidden == {f \in ObjectFields : writeonly(f)}

(***************************************************************************)
(* C24. Output hiding of fields: after any sequence of set_json and        *)
(* set_value calls, to_json of the object never holds the key of a         *)
(* writeonly or internal field, while get_value on that field still        *)
(* returns the stored value.                                               *)
(***************************************************************************)
C24_OutputHiding ==
    /\ pc = "to_json" => result.ok /\ DOMAIN result.v \cap Hidden = {}
    /\ (pc = "get_value" /\ finder \in Hidden) =>
          /\ result.ok
          /\ result.v.some = LastStored(finder).some
          /\ result.v.some => result.v.v = LastStored(finder).v

C24_Witness ==
    /\ pc = "to_json"
    /\ object["string"].some /\ object["writeonly"].some
    /\ DOMAIN result.v = {"string"}

(***************************************************************************)
(* group-by over the stored records of a model                             *)
(***************************************************************************)
MaxRecords == 3

\* the order of the values of a by field: null first, then the strings in
\* ascending order
ValueOrder == <<JsonNull, "London", "UK", "US", "Washington">>

Rank(v) == CHOOSE n \in 1..Len(ValueOrder) : ValueOrder[n] = v

\* the records of the model of the group_by tests: country is required, city
\* is optional
Records ==
    [country : {"UK", "US"}, city : {JsonNull, "London", "Washington"},
     profileViews : {78, 5000}]

RECURSIVE RecordLists(_)
RecordLists(n) ==
    IF n = 0 THEN {<<>>}
    ELSE RecordLists(n - 1)
         \cup {Append(rs, r) : rs \in {x \in RecordLists(n - 1) : Len(x) = n - 1}, r \in Records}

ByLists == {<<"country">>, <<"city">>, <<"country", "city">>, <<"city", "country">>}

\* the values of the by fields of a record
GroupKey(r, by) == [n \in 1..Len(by) |-> r[by[n]]]

\* the keys are compared field by field, in the order of `by`
RECURSIVE KeyLess(_, _)
KeyLess(a, b) ==
    /\ Len(a) > 0
    /\ \/ Rank(Head(a)) < Rank(Head(b))
       \/ Head(a) = Head(b) /\ KeyLess(Tail(a), Tail(b))

Entry(key, sum) == [key |-> key, sum |-> sum]

\* a record put into the groups found so far, each one a new entry
RECURSIVE AccumulateApart(_, _, _)
AccumulateApart(groups, key, n) ==
    IF groups = <<>> THEN <<Entry(key, n)>>
    ELSE IF KeyLess(key, Head(groups).key) \/ Head(groups).key = key
      THEN <<Entry(key, n)>> \o groups
      ELSE <<Head(groups)>> \o AccumulateApart(Tail(groups), key, n)

\* a record put into the groups found so far, which are kept in ascending
\* order of their keys: its value is added to the sum of its group
RECURSIVE Accumulate(_, _, _)
Accumulate(groups, key, n) ==
    IF groups = <<>> THEN <<Entry(key, n)>>
    ELSE IF Head(groups).key = key
      THEN <<Entry(key, Head(groups).sum + n)>> \o Tail(groups)
    ELSE IF KeyLess(key, Head(groups).key)
      THEN <<Entry(key, n)>> \o groups
      ELSE <<Head(groups)>> \o Accumulate(Tail(groups), key, n)

RECURSIVE group_by(_, _)
\* Connector::group_by with `by` and _sum of profileViews
group_by(rs, by) ==
    IF rs = <<>> THEN <<>>
    ELSE Accumulate(group_by(SubSeq(rs, 1, Len(rs) - 1), by),
                    GroupKey(rs[Len(rs)], by), rs[Len(rs)].profileViews)

InitGroup ==
    /\ records \in RecordLists(MaxRecords)
    /\ finder \in ByLists
    /\ result = <<>>
    /\ pc = "records"
    /\ object = <<>>
    /\ dialect = "SQLite"
    /\ self = [tag |-> "Null", v |-> <<>>]
    /\ field_type = [tag |-> "String"]
    /\ optional = FALSE
    /\ url = ""
    /\ reset = FALSE
    /\ files = <<>>
    /\ catalog = <<>>
    /\ row = <<>>
    /\ InitMigrateIdle

\* connector.group_by(graph, model, finder)
GroupBy ==
    /\ NoCall
    /\ pc = "records"
    /\ result' = group_by(records, finder)
    /\ pc' = "group_by"
    /\ UNCHANGED <<dialect, models, db, db_tables, i, db_columns, table_has_records,
                   manipulations, k, sub, clauses, j, abort, log, account, run, db0,
                   str, out, self, field_type, optional, url, reset, files, catalog,
                   object, records, finder, sql, row>>

NextGroup == GroupBy

SpecGroup == InitGroup /\ [][NextGroup]_vars

\* the records of a group
Members(key) == {n \in 1..Len(records) : GroupKey(records[n], finder) = key}

RECURSIVE SumOver(_)
SumOver(S) ==
    IF S = {} THEN 0
    ELSE LET n == CHOOSE x \in S : TRUE
         IN  records[n].profileViews + SumOver(S \ {n})

(***************************************************************************)
(* C25. group-by partitions the records: the result has exactly one entry  *)
(* per distinct combination of the by-field values (null forms its own     *)
(* group), the _sum of each entry is the sum of the field over the records *)
(* of its group, the entries are in ascending order of the by-field        *)
(* values, and the result is empty when there are no records.              *)
(***************************************************************************)
C25_GroupByPartitions ==
    pc = "group_by" =>
        /\ {result[n].key : n \in 1..Len(result)}
              = {GroupKey(records[n], finder) : n \in 1..Len(records)}
        /\ \A m, n \in 1..Len(result) : m < n => KeyLess(result[m].key, result[n].key)
        /\ \A n \in 1..Len(result) : result[n].sum = SumOver(Members(result[n].key))
        /\ records = <<>> => result = <<>>

C25_Witness ==
    /\ pc = "group_by"
    /\ Len(records) = 3
    /\ Len(result) = 2
    /\ \E n \in 1..Len(result) : result[n].key[Len(finder)] = JsonNull /\ result[n].sum = 156

\* a DROP TABLE of the cleanup loop
IsCleanup(e) == e.op = "drop_table" /\ e.arg = "cleanup"

\* a call made while a model is processed
IsModelCall(e) == e.op # "list_tables" /\ ~IsCleanup(e)

\* the table name of the model the call was made for
CalledFor(e) == IF e.op = "rename_table" THEN e.arg ELSE e.t

\* the place of that model in the declaration order
ModelOf(e) == CHOOSE n \in 1..Len(models) : models[n].name = CalledFor(e)

(***************************************************************************)
(* C26. Model order and drops last: migrate processes the models in        *)
(* declaration order, so every statement issued for model i precedes every *)
(* statement issued for model j when i < j, and every cleanup DROP TABLE   *)
(* is issued after the last declared model has been fully processed.       *)
(***************************************************************************)
C26_ModelOrderDropsLast ==
    /\ \A n \in 1..Len(log) :
          IsModelCall(log[n]) => \E q \in 1..Len(models) : models[q].name = CalledFor(log[n])
    /\ \A m, n \in 1..Len(log) :
          (m < n /\ IsModelCall(log[m]) /\ IsModelCall(log[n])) =>
              ModelOf(log[m]) <= ModelOf(log[n])
    /\ \A m \in 1..Len(log) :
          IsCleanup(log[m]) =>
              /\ \A n \in (m + 1)..Len(log) : IsCleanup(log[n])
              /\ \A q \in 1..Len(models) :
                    ~models[q].virtual =>
                        \E n \in 1..(m - 1) : IsModelCall(log[n]) /\ ModelOf(log[n]) = q

C26_Witness ==
    \E a, b, c \in 1..Len(log) :
        /\ a < b /\ b < c
        /\ IsModelCall(log[a]) /\ ModelOf(log[a]) = 1
        /\ IsModelCall(log[b]) /\ ModelOf(log[b]) = 2
        /\ IsCleanup(log[c])

(***************************************************************************)
(* migrate of one model whose table may differ in two columns              *)
(***************************************************************************)
\* the shapes of the columns "b" and "c" drawn for a table or a model
WideB == {Col("b", "int", FALSE, None), Col("b", "text", FALSE, None),
          Col("b", "int", FALSE, "0")}

WideC == {Col("c", "int", FALSE, None), Col("c", "int", TRUE, None)}

WideColumnSets ==
    {{IdColumn} \cup bs \cup cs : bs \in {{}} \cup {{c} : c \in WideB},
                                  cs \in {{}} \cup {{c} : c \in WideC}}

InitManip ==
    /\ dialect \in Dialects
    /\ \E lv \in WideColumnSets, desired \in WideColumnSets, live \in SUBSET TableNames :
          \E rows \in (IF live = {} THEN {FALSE} ELSE BOOLEAN),
             as \in ActionChoices(lv, desired) :
              /\ models \in {<<m>> : m \in ModelsNamed("t", desired, as)}
              /\ db = LiveDb(live, lv, rows)
    /\ InitLocals
    /\ str = <<>> /\ out = <<>>
    /\ InitOthers
    /\ InitSequencing
    /\ atomic = TRUE

SpecManip == InitManip /\ [][Next]_vars

\* the column a manipulation is about
ColName(m) == IF m.op = "remove" THEN m.old.name ELSE m.new.name

\* the statements executed so far for the n-th manipulation of the current table
StmtsOf(n) ==
    {q \in 1..Len(log) :
        /\ log[q].op \in ColumnOps
        /\ log[q].t = table_name
        /\ log[q].arg = ColName(manipulations[n])}

\* the number of statements the n-th manipulation is applied with
StmtCount(n) ==
    IF manipulations[n].op = "alter" /\ dialect = "PostgreSQL"
      THEN Len(psql_alter_clauses(table_name, manipulations[n].old, manipulations[n].new))
      ELSE 1

\* the run is in, or was aborted in, the loop over the manipulations
InManip == pc = "manip"

AbortedInManip == pc = "aborted" /\ sub # "begin" /\ k <= Len(manipulations)

\* the manipulations before the k-th are applied in full and in order, none
\* after the k-th is attempted, and what was applied is in the table
PrefixApplied ==
    /\ \A n \in 1..(k - 1) : Cardinality(StmtsOf(n)) = StmtCount(n)
    /\ \A n \in (k + 1)..Len(manipulations) : StmtsOf(n) = {}
    /\ \A m, n \in 1..Len(manipulations) :
          m < n => \A a \in StmtsOf(m), b \in StmtsOf(n) : a < b
    /\ \A n \in 1..(k - 1) :
          /\ manipulations[n].op = "add" =>
                \E c \in db[table_name].cols : c.name = ColName(manipulations[n])
          /\ manipulations[n].op = "remove" =>
                \A c \in db[table_name].cols : c.name # ColName(manipulations[n])

(***************************************************************************)
(* C27. Manipulations are applied in emitted order as independent          *)
(* statements, and a failure leaves a prefix: if the k-th one fails,       *)
(* exactly the statements of manipulations 1..k-1 have been applied, none  *)
(* after k is attempted, and none of the applied ones is rolled back.      *)
(***************************************************************************)
C27_FailureLeavesPrefix ==
    AbortedInManip => PrefixApplied /\ StmtsOf(k) = {}

\* C27 as amended: the statements of the failed manipulation that were
\* executed before the failure stay applied as well
C27_FailureLeavesStatementPrefix ==
    /\ InManip => PrefixApplied
    /\ (InManip /\ k <= Len(manipulations)) =>
          /\ Cardinality(StmtsOf(k)) <= StmtCount(k)
          /\ sub = "begin" => StmtsOf(k) = {}
    /\ AbortedInManip =>
          /\ PrefixApplied
          /\ Cardinality(StmtsOf(k)) <= StmtCount(k)
          /\ (manipulations[k].op = "add" /\ StmtsOf(k) # {}) =>
                \E c \in db[table_name].cols : c.name = ColName(manipulations[k])

C27_Witness ==
    /\ AbortedInManip
    /\ k = 2
    /\ StmtsOf(1) # {}
    /\ StmtsOf(2) # {}


(***************************************************************************)
(* C28. Post-action placement: the action of an AddColumn runs after its   *)
(* ALTER TABLE .. ADD has executed and never before it; the action of a    *)
(* RemoveColumn runs to completion before the ALTER TABLE .. DROP COLUMN   *)
(* is issued, and when the action fails the column is not dropped; each    *)
(* action is invoked exactly once, and a manipulation without an action    *)
(* invokes none.  The context of each invocation is built right before it  *)
(* from the constant Value::Null, so no state of the run reaches it.       *)
(***************************************************************************)
\* the invocations of the post-action of the n-th manipulation
ActionsOf(n) ==
    {q \in 1..Len(log) :
        log[q] = Ev("action", table_name, ColName(manipulations[n]))}

\* the n-th manipulation aborted in its post-action
ActionFailed(n) == pc = "aborted" /\ abort = "action" /\ k = n

\* every position of a comes before every position of b
Before(a, b) == \A x \in a, y \in b : x < y

PlacedAfterAdd(n) ==
    LET m == manipulations[n]
        adds == {q \in StmtsOf(n) : log[q].op = "add_column"}
    IN  /\ Cardinality(ActionsOf(n)) <= 1
        /\ ActionsOf(n) # {} => (m.action /\ Cardinality(adds) = 1)
        /\ Before(adds, ActionsOf(n))
        /\ (m.action /\ n < k) => ActionsOf(n) # {}
        /\ ActionFailed(n) =>
              \E c \in db[table_name].cols : c.name = m.new.name

PlacedBeforeRemove(n) ==
    LET m == manipulations[n]
        drops == {q \in StmtsOf(n) : log[q].op = "drop_column"}
    IN  /\ Cardinality(ActionsOf(n)) <= 1
        /\ ActionsOf(n) # {} => m.action
        /\ Before(ActionsOf(n), drops)
        /\ (m.action /\ drops # {}) => ActionsOf(n) # {}
        /\ ActionFailed(n) =>
              /\ drops = {}
              /\ m.old \in db[table_name].cols

C28_PostActionPlacement ==
    (pc \in {"manip", "aborted"} /\ i <= Len(models)) =>
        \A n \in 1..Len(manipulations) :
            /\ manipulations[n].op = "add" => PlacedAfterAdd(n)
            /\ manipulations[n].op = "remove" => PlacedBeforeRemove(n)
            /\ manipulations[n].op \notin {"add", "remove"} => ActionsOf(n) = {}

\* a column was dropped after its action ran, in a table that was changed in
\* another column too
C28_Witness ==
    /\ pc = "manip" /\ k > Len(manipulations) /\ Len(manipulations) = 2
    /\ \E n \in 1..2 :
          /\ manipulations[n].op = "remove"
          /\ ActionsOf(n) # {}
          /\ \E q \in StmtsOf(n) : log[q].op = "drop_column"


(***************************************************************************)
(* migrate over lists of tables: every list of models with rename          *)
(* histories against every set of live tables, the tables alike but for a  *)
(* not-null column to add, on one dialect; and, so that every step of      *)
(* migrate is taken, one model whose table differs from it in one column,  *)
(* on every dialect                                                        *)
(***************************************************************************)
NarrowColumnSets ==
    {{IdColumn},
     {IdColumn, Col("b", "int", FALSE, None)},
     {IdColumn, Col("b", "text", FALSE, None)}}

InitTableLists ==
    \/ /\ dialect = "MySQL"
       /\ \E desired \in FocusDesired, live \in SUBSET TableNames :
             \E rows \in RowChoices({IdColumn}, desired, live) :
                 /\ models \in ModelLists(desired, {})
                 /\ db = LiveDb(live, {IdColumn}, rows)
    \/ /\ dialect \in Dialects
       /\ \E lv \in NarrowColumnSets, desired \in NarrowColumnSets :
             \E rows \in BOOLEAN, as \in ActionChoices(lv, desired) :
                 /\ models = <<ModelRec("t", FALSE, <<>>, desired, as)>>
                 /\ db = LiveDb({"t"}, lv, rows)

InitTableRuns ==
    /\ InitTableLists
    /\ InitLocals
    /\ str = <<>> /\ out = <<>>
    /\ InitOthers
    /\ InitSequencing
    /\ atomic = TRUE

SpecTables == InitTableRuns /\ [][Next]_vars

(***************************************************************************)
(* C29. Rename history, first match wins: the history of a model is        *)
(* consulted only when the model's table name is not live; its names are   *)
(* tried in declared order and the first live one is renamed to the        *)
(* model's name; no further name is tried, so at most one rename is issued *)
(* per model per run; after the rename the working set holds the new name  *)
(* and no longer the old one.                                              *)
(***************************************************************************)
\* the working set the rename found: the one it left, with its changes undone
SetBeforeRename ==
    ({db_tables[n] : n \in 1..Len(db_tables)} \ {table_name}) \cup {log[Len(log)].t}

\* the names of the history that come before name x
TriedBefore(m, x) ==
    {m.renamed[q] : q \in {r \in 1..Len(m.renamed) :
                              \A s \in 1..r : m.renamed[s] # x}}

Received(op, x, a) == {q \in 1..Len(log) : log[q] = Ev(op, x, a)}

ColumnStmts(x) == Events(ColumnOps, x)

RenamedTo(x) == {q \in 1..Len(log) : log[q].op = "rename_table" /\ log[q].arg = x}

\* the statements of a drop-and-recreate that table x has received
RecreateStmts(x) ==
    Received("drop_table", x, "recreate") \cup Received("create_table", x, "recreate")

\* the classifications whose statements table x has received; a RENAME counts
\* for the table under its new name, and a drop-and-recreate of a table that
\* was there counts as its alteration
ClassesOf(x) ==
    (IF Received("create_table", x, "") # {} THEN {"to-create"} ELSE {})
    \cup (IF RenamedTo(x) # {} THEN {"to-rename-from"} ELSE {})
    \cup (IF ColumnStmts(x) \cup RecreateStmts(x) # {} THEN {"to-alter"} ELSE {})
    \cup (IF Received("drop_table", x, "cleanup") # {} THEN {"to-drop"} ELSE {})

C30_SingleClassification ==
    \A x \in TableNames : Cardinality(ClassesOf(x)) <= 1

FreshOnly(x) ==
    /\ Cardinality(Received("create_table", x, "")) = 1
    /\ Count(SchemaOps \ {"rename_table"}, x) = 1
    /\ RenamedTo(x) = {}

CleanupOnly(x) ==
    /\ Cardinality(Received("drop_table", x, "cleanup")) = 1
    /\ Count(SchemaOps \ {"rename_table"}, x) = 1
    /\ RenamedTo(x) = {}

ExistingPath(x) ==
    LET drops   == Received("drop_table", x, "recreate")
        creates == Received("create_table", x, "recreate")
    IN  /\ Received("create_table", x, "") = {}
        /\ Received("drop_table", x, "cleanup") = {}
        /\ Cardinality(RenamedTo(x)) <= 1
        /\ Cardinality(drops) <= 1 /\ Cardinality(creates) <= 1
        /\ creates # {} => drops # {}
        /\ Before(drops, creates)
        /\ drops # {} => ColumnStmts(x) = {}
        /\ Before(RenamedTo(x), ColumnStmts(x) \cup drops)

C30_OneConvergencePath ==
    \A x \in TableNames : FreshOnly(x) \/ CleanupOnly(x) \/ ExistingPath(x)

\* a completed run that renamed a table and then altered it, created another
\* and dropped a third
C30_Witness ==
    /\ pc = "done"
    /\ \E x \in TableNames : RenamedTo(x) # {} /\ ColumnStmts(x) # {}
    /\ \E x \in TableNames : FreshOnly(x)
    /\ \E x \in TableNames : CleanupOnly(x)


(***************************************************************************)
(* C31. Drop-then-create replaces incremental ALTERs: a table for which    *)
(* the destructive path is taken receives DROP TABLE and then CREATE       *)
(* TABLE, in that order, and neither a column-level ALTER TABLE nor a      *)
(* post-action in the run; a table for which the incremental path is taken *)
(* receives no DROP TABLE and no CREATE TABLE.  The destructive path is    *)
(* the one taken exactly when the table holds rows and a not-null column   *)
(* without default is to be added.                                         *)
(***************************************************************************)
\* the post-actions run for table x
ActionsFor(x) == {q \in 1..Len(log) : log[q].op = "action" /\ log[q].t = x}

\* table x was compared with its model (the row query that precedes the choice)
Diffed(x) == Received("has_records", x, "") # {}

\* the destructive path was entered for table x
Recreated(x) == Received("drop_table", x, "recreate") # {}

\* the processing of table x is over
Processed(x) ==
    \E n \in 1..Len(models) : models[n].name = x /\ (n < i \/ pc \in {"drop", "done"})

CheckedLast ==
    /\ log # <<>>
    /\ log[Len(log)] = Ev("has_records", table_name, ColName(manipulations[k]))

\* the n-th manipulation adds a not-null column without default
GatedAdd(n) == is_add_column_non_null(manipulations[n])

C32_GateOnlyOnRows ==
    /\ (pc = "manip" /\ k <= Len(manipulations) /\ GatedAdd(k)) =>
          /\ sub = "exec" =>
                /\ CheckedLast
                /\ ~db[table_name].rows
                /\ db[table_name].live
                /\ ENABLED AddExec
          /\ Count({"drop_table"}, table_name) = 0
    /\ (pc = "aborted" /\ abort = "non_null_add") =>
          /\ GatedAdd(k)
          /\ CheckedLast
          /\ db[table_name].rows
          /\ StmtsOf(k) = {}
          /\ ~table_has_records =>
                \E q \in ActionsFor(table_name) : q < Len(log)
    /\ (pc \in {"manip", "aborted"} /\ i <= Len(models)) =>
          \A n \in 1..Len(manipulations) :
              (GatedAdd(n) /\ StmtsOf(n) # {}) =>
                  \A q \in StmtsOf(n) :
                      /\ log[q].op = "add_column"
                      /\ q > 1
                      /\ log[q - 1] = Ev("has_records", table_name, ColName(manipulations[n]))
    /\ (pc = "manip" /\ ~table_has_records) =>
          \A n \in 1..Len(manipulations) :
              (n < k /\ GatedAdd(n)) => Cardinality(StmtsOf(n)) = 1

\* the table held no row when migrate began with it, the post-action of its
\* first manipulation inserted some, and the check of the AddColumn that
\* follows saw them
C32_Witness ==
    /\ pc = "aborted" /\ abort = "non_null_add"
    /\ ~table_has_records
    /\ k = 2
    /\ ActionsFor(table_name) # {}


(***************************************************************************)
(* C33. A rename never takes another declared model's table: no live table *)
(* whose name is the table name of a declared non-virtual model is ever    *)
(* renamed, whatever the order of the declarations, so a model whose table *)
(* was live when the run began is never created afresh.                    *)
(***************************************************************************)
C33_RenameSparesDeclared ==
    /\ \A q \in 1..Len(log) :
          log[q].op = "rename_table" => log[q].t \notin NonVirtualNames
    /\ \A x \in NonVirtualNames :
          db0[x].live => Received("create_table", x, "") = {}


(***************************************************************************)
(* C34. The drop set only shrinks: once the tables are listed, the working *)
(* set holds only names that were listed, and for the moment between the   *)
(* rename and the removal that follows it the name a table was just        *)
(* renamed to; each name is in it once; every table the cleanup loop drops *)
(* was live when the run began; a table created in the run, or renamed to  *)
(* in it, is never dropped by the cleanup loop.                            *)
(***************************************************************************)
WorkingSet == {db_tables[n] : n \in 1..Len(db_tables)}

\* the tables the run has created, afresh or again
CreatedInRun == {x \in TableNames : Count({"create_table"}, x) > 0}

\* the names the run has given to tables
RenamedToInRun == {x \in TableNames : RenamedTo(x) # {}}

C34_DropSetOnlyShrinks ==
    /\ pc # "start" =>
          /\ WorkingSet \subseteq
                InitialLive \cup (IF JustRenamed THEN {table_name} ELSE {})
          /\ Cardinality(WorkingSet) = Len(db_tables)
    /\ pc = "start" => db_tables = <<>>
    /\ \A x \in TableNames :
          CleanupDrops(x) > 0 =>
              /\ x \in InitialLive
              /\ x \notin CreatedInRun
              /\ x \notin RenamedToInRun
    /\ pc \in {"drop", "done"} =>
          /\ WorkingSet \subseteq InitialLive
          /\ WorkingSet \cap (CreatedInRun \cup RenamedToInRun) = {}

\* a completed run that renamed one table, created another and dropped a third
C34_Witness ==
    /\ pc = "done"
    /\ RenamedToInRun # {}
    /\ CreatedInRun # {}
    /\ \E x \in TableNames : CleanupDrops(x) = 1


(***************************************************************************)
(* C35. Every PostgreSQL AlterColumn changes the schema: on PostgreSQL,    *)
(* once migrate is past an AlterColumn(old, new), at least one statement   *)
(* was executed for it and the live column has the type, the nullability   *)
(* and the default of the desired column.                                  *)
(***************************************************************************)
\* the column named as c is, as the database has it
LiveColumn(c) == ColumnNamed(db[table_name].cols, c.name)

SameAttributes(a, b) ==
    a.type = b.type /\ a.not_null = b.not_null /\ a.default = b.default

C35_PsqlAlterConverges ==
    (dialect = "PostgreSQL" /\ pc = "manip") =>
        \A n \in 1..Len(manipulations) :
            (manipulations[n].op = "alter" /\ n < k) =>
                /\ StmtsOf(n) # {}
                /\ SameAttributes(LiveColumn(manipulations[n].new), manipulations[n].new)


(***************************************************************************)
(* The text of the statements migrate builds with format!: a statement is  *)
(* the sequence of the pieces of its format string and of the values put   *)
(* in its holes                                                            *)
(***************************************************************************)
\* the characters that quote an identifier, by name
DoubleQuote == "double quote"

Backtick == "backtick"

\* SQLDialect::escape(): the character that quotes an identifier
escape(d) == IF d = "PostgreSQL" THEN DoubleQuote ELSE Backtick

Identifiers == {"t", "u", "b"}

\* rename_table: ALTER TABLE {escape}{old_name}{escape} RENAME TO {escape}{new_name}{escape}
rename_table_sql(d, old, new) ==
    <<"ALTER TABLE ", escape(d), old, escape(d), " RENAME TO ", escape(d), new, escape(d)>>

\* table_has_records: select * from {escape}{table_name}{escape} limit 1
table_has_records_sql(d, t) ==
    <<"select * from ", escape(d), t, escape(d), " limit 1">>

\* drop_table: DROP TABLE {escape}{table}{escape}
drop_table_sql(d, t) == <<"DROP TABLE ", escape(d), t, escape(d)>>

\* the text of one statement of psql_alter_clauses
psql_alter_clause_sql(ev, new) ==
    LET e == escape("PostgreSQL")
        head == <<"ALTER TABLE ", e, ev.t, e, " ALTER COLUMN ", e, ev.arg, e>>
    IN  CASE ev.op = "alter_type"   -> head \o <<" TYPE ", new.type>>
          [] ev.op = "set_default"  -> head \o <<" SET DEFAULT ", new.default>>
          [] ev.op = "drop_default" -> head \o <<" DROP DEFAULT">>

\* the RenameColumn arm: ALTER TABLE {} RENAME COLUMN '{}' TO '{}' on PostgreSQL,
\* ALTER TABLE {} RENAME COLUMN `{}` TO `{}` on the other dialects
rename_column_sql(d, t, old, new) ==
    LET q == IF d = "PostgreSQL" THEN Quote ELSE Backtick
    IN  <<"ALTER TABLE ", t, " RENAME COLUMN ", q, old, q, " TO ", q, new, q>>

\* what a statement builder returns: its name, the identifiers it was given
\* and the statements it built
Built(fn, ids, stmts) == [fn |-> fn, ids |-> ids, stmts |-> stmts]

InitSql ==
    /\ dialect \in Dialects
    /\ pc = "build"
    /\ InitOthers
    /\ InitMigrateIdle

SqlFrame ==
    UNCHANGED <<dialect, models, db, db_tables, i, db_columns, table_has_records,
                manipulations, k, sub, clauses, j, abort, log, account, run, db0,
                str, out, self, field_type, optional, url, reset, files, catalog,
                object, records, finder, result, row>>

RenameTableSql ==
    /\ NoCall
    /\ pc = "build"
    /\ \E old \in Identifiers, new \in Identifiers :
          /\ old # new
          /\ sql' = Built("rename_table", {old, new},
                          <<rename_table_sql(dialect, old, new)>>)
    /\ pc' = "built"
    /\ SqlFrame

TableHasRecordsSql ==
    /\ NoCall
    /\ pc = "build"
    /\ \E t \in Identifiers :
          sql' = Built("table_has_records", {t}, <<table_has_records_sql(dialect, t)>>)
    /\ pc' = "built"
    /\ SqlFrame

DropTableSql ==
    /\ NoCall
    /\ pc = "build"
    /\ \E t \in Identifiers : sql' = Built("drop_table", {t}, <<drop_table_sql(dialect, t)>>)
    /\ pc' = "built"
    /\ SqlFrame

\* psql_alter_clauses is called on PostgreSQL only
PsqlAlterClausesSql ==
    /\ NoCall
    /\ pc = "build"
    /\ dialect = "PostgreSQL"
    /\ \E t \in Identifiers, c \in Identifiers :
        \E old \in {Col(c, ty, FALSE, df) : ty \in {"int", "text"}, df \in {None, "0", "1"}},
           new \in {Col(c, ty, FALSE, df) : ty \in {"int", "text"}, df \in {None, "0", "1"}} :
            LET cl == psql_alter_clauses(t, old, new) IN
                /\ t # c
                /\ sql' = Built("psql_alter_clauses", {t, c},
                                [n \in 1..Len(cl) |-> psql_alter_clause_sql(cl[n], new)])
    /\ pc' = "built"
    /\ SqlFrame

RenameColumnSql ==
    /\ NoCall
    /\ pc = "build"
    /\ \E t \in Identifiers, old \in Identifiers, new \in Identifiers :
          /\ t # old /\ t # new /\ old # new
          /\ sql' = Built("rename_column", {t, old, new},
                          <<rename_column_sql(dialect, t, old, new)>>)
    /\ pc' = "built"
    /\ SqlFrame

NextSql ==
    \/ RenameTableSql
    \/ TableHasRecordsSql
    \/ DropTableSql
    \/ PsqlAlterClausesSql
    \/ RenameColumnSql

SpecSql == InitSql /\ [][NextSql]_vars

(***************************************************************************)
(* C36. Identifiers are quoted with the dialect's identifier-escape        *)
(* character: in every statement built by rename_table, drop_table,        *)
(* table_has_records, psql_alter_clauses and the RenameColumn arm, each    *)
(* table name and each column name has dialect.escape() right before it    *)
(* and right after it, on every dialect.                                   *)
(***************************************************************************)
\* the piece at position p of statement s is wrapped in the escape of dialect d
Wrapped(s, p, d) ==
    /\ p > 1 /\ p < Len(s)
    /\ s[p - 1] = escape(d)
    /\ s[p + 1] = escape(d)

C36_IdentifiersEscaped ==
    pc = "built" =>
        \A n \in 1..Len(sql.stmts) :
            /\ \A p \in 1..Len(sql.stmts[n]) :
                  sql.stmts[n][p] \in sql.ids => Wrapped(sql.stmts[n], p, dialect)
            /\ \E p \in 1..Len(sql.stmts[n]) : sql.stmts[n][p] \in sql.ids


(***************************************************************************)
(* C37. Array literal shape: for a Vec field type and a Vec value whose    *)
(* elements all have an encoding, to_sql_string returns ARRAY[, then the   *)
(* encodings of the elements in their order with a comma and a space       *)
(* between two of them, then ]; each element is encoded with the type and  *)
(* the optionality of the element field, so a null element of an optional  *)
(* element type is NULL; the empty array is ARRAY[].                       *)
(***************************************************************************)
\* the encoding of the q-th element of the array under the element field
ElementLiteral(q) ==
    to_sql_string(self.v[q], field_type.elem.type, field_type.elem.optional)

\* the encodings of the first n elements, each after the first behind ", "
Joined(n) ==
    LET F[m \in 0..n] ==
            IF m = 0 THEN <<>>
            ELSE F[m - 1] \o (IF m = 1 THEN <<>> ELSE <<", ">>) \o ElementLiteral(m).lit
    IN  F[n]

ArrayCase == pc = "to_sql_string" /\ field_type.tag = "Vec" /\ self.tag = "Vec"

C37_ArrayLiteralShape ==
    ArrayCase =>
        IF \E q \in 1..Len(self.v) : ElementLiteral(q).panic
          THEN out.panic
          ELSE /\ ~out.panic
               /\ out.lit = <<"ARRAY[">> \o Joined(Len(self.v)) \o <<"]">>
               /\ self.v = <<>> => out.lit = <<"ARRAY[", "]">>
               /\ \A q \in 1..Len(self.v) :
                     (is_null(self.v[q]) /\ field_type.elem.optional) =>
                         ElementLiteral(q).lit = <<"NULL">>

\* an array of two elements, the second of which is null, under an optional
\* element type
C37_Witness ==
    /\ ArrayCase
    /\ ~out.panic
    /\ Len(self.v) = 2
    /\ ~is_null(self.v[1]) /\ is_null(self.v[2])
    /\ out.lit[Len(out.lit) - 1] = "NULL"


(***************************************************************************)
(* ColumnDecoder::decode: one row of the column description of a live      *)
(* table, decoded into a column                                            *)
(***************************************************************************)
\* the values of the fields of a description row
NullFields == {"YES", "NO", ""}

KeyFields == {"PRI", "UNI", "MUL", ""}

\* the Extra field, word by word
ExtraFields ==
    {<<>>, <<"auto_increment">>, <<"DEFAULT_GENERATED">>,
     <<"DEFAULT_GENERATED", "auto_increment">>}

DefaultFields == {None, "0", "1"}

Rows ==
    [Field : {"b"}, Type : {"int", "text"}, Null : NullFields, Key : KeyFields,
     Extra : ExtraFields, Default : DefaultFields]

\* extra.contains("auto_increment")
contains(extra, word) == \E n \in 1..Len(extra) : extra[n] = word

\* ColumnDecoder::decode(row, dialect); the type is kept as the row spells it,
\* SQLTypeDecoder::decode being outside of what is modelled here
decode(r, d) ==
    LET null == r.Null = "YES"
        auto_increment == contains(r.Extra, "auto_increment")
        primary == r.Key = "PRI"
        unique == r.Key = "UNI"
    IN  [name |-> r.Field,
         type |-> r.Type,
         not_null |-> ~null,
         auto_increment |-> auto_increment,
         default |-> None,
         primary_key |-> primary,
         unique_key |-> unique]

InitDecode ==
    /\ dialect \in Dialects
    /\ pc = "row"
    /\ self = [tag |-> "Null", v |-> <<>>]
    /\ field_type = [tag |-> "String"]
    /\ optional = FALSE
    /\ url = ""
    /\ reset = FALSE
    /\ files = <<>>
    /\ catalog = <<>>
    /\ object = <<>>
    /\ records = <<>>
    /\ finder = <<>>
    /\ result = <<>>
    /\ sql = <<>>
    /\ InitMigrateIdle
    /\ row \in Rows

Decode ==
    /\ NoCall
    /\ pc = "row"
    /\ result' = decode(row, dialect)
    /\ pc' = "decoded"
    /\ UNCHANGED <<dialect, models, db, db_tables, i, db_columns, table_has_records,
                   manipulations, k, sub, clauses, j, abort, log, account, run, db0,
                   str, out, self, field_type, optional, url, reset, files, catalog,
                   object, records, finder, sql, row>>

NextDecode == Decode

SpecDecode == InitDecode /\ [][NextDecode]_vars

(***************************************************************************)
(* C38. Live column decoding: the column ColumnDecoder::decode yields for  *)
(* a description row is not null exactly when the Null field is not YES,   *)
(* a primary key exactly when the Key field is PRI, a unique key exactly   *)
(* when the Key field is UNI (so never both), auto-increment exactly when  *)
(* the Extra field contains auto_increment, and has the default the row    *)
(* reports.                                                                *)
(***************************************************************************)
C38_LiveColumnDecoding ==
    pc = "decoded" =>
        /\ result.name = row.Field
        /\ result.not_null <=> row.Null # "YES"
        /\ result.primary_key <=> row.Key = "PRI"
        /\ result.unique_key <=> row.Key = "UNI"
        /\ ~(result.primary_key /\ result.unique_key)
        /\ result.auto_increment <=> "auto_increment" \in Range(row.Extra)
        /\ result.default = row.Default

(***************************************************************************)
(* Termination of migrate.  A call that is made returns, with a result or  *)
(* with an error: the run takes its next step whenever it has one, which   *)
(* is weak fairness of the steps of migrate.                               *)
(***************************************************************************)
SpecTermination == InitTableRuns /\ [][Next]_vars /\ WF_vars(Next)

\* migrate has returned or has panicked
Ended == pc \in {"done", "aborted"}

\* every model was passed by the loop and nothing of the working set is live
Completed ==
    /\ i = Len(models) + 1
    /\ j = Len(db_tables) + 1
    /\ \A n \in 1..Len(db_tables) : ~db[db_tables[n]].live

\* C39. Termination: over every bounded list of models with rename histories
\* and every set of live tables, a run of migrate whose calls return comes to
\* an end; when it returns, every model was processed and every remaining
\* table dropped; when it aborts, it takes no further step; the loop head is
\* only ever reached again at a later model, so no model is visited twice.
C39_Termination ==
    /\ <>Ended
    /\ [](pc = "done" => Completed)
    /\ [][pc # "aborted"]_vars
    /\ [][pc' = "loop" /\ pc # "start" => i' = i + 1]_vars
    /\ [][i' >= i /\ i' <= Len(models) + 1]_vars

\* a run over two models has returned after its cleanup dropped a table
C39_Witness ==
    /\ pc = "done"
    /\ Len(models) = 2
    /\ \E n \in 1..Len(log) : log[n].op = "drop_table" /\ log[n].arg = "cleanup"


====
